---- MODULE Spec2Model ----
(***************************************************************************)
(* Swodnil: the command-line interpreter of shell_core.py.                 *)
(*                                                                         *)
(* A line is a sequence of one-character strings.  parse_command_line is   *)
(* a pure function of the line and is modelled as an operator; run_shell   *)
(* is modelled as a state machine whose steps are cut at the points where  *)
(* the loop blocks (the prompt, the wait for a foreground process, the     *)
(* elevation confirmation).                                                *)
(***************************************************************************)
EXTENDS Integers, Sequences, FiniteSets, TLC

\* ------------------------------------------------------------------------
\* Bounds
\* ------------------------------------------------------------------------
MaxLineLen == 4      \* lines over the full alphabet given to the parser
MaxQuoteLen == 6     \* lines over the quoting alphabet given to the parser

\* ------------------------------------------------------------------------
\* Characters and strings
\* ------------------------------------------------------------------------
SQ == "'"
DQ == "\""
BS == "\\"
SP == " "

Alphabet == {"a", SP, "|", "&", ";", SQ, DQ, BS}
QuoteAlphabet == {"a", "|", SQ, DQ}

BoundedSeq(S, n) == UNION {[1..k -> S] : k \in 0..n}

\* str.isspace() for one character
isspace(c) == c = SP

RECURSIVE lstrip(_)
lstrip(s) == IF s # <<>> /\ isspace(Head(s)) THEN lstrip(Tail(s)) ELSE s

RECURSIVE rstrip(_)
rstrip(s) ==
    IF s # <<>> /\ isspace(s[Len(s)]) THEN rstrip(SubSeq(s, 1, Len(s) - 1)) ELSE s

\* strip that leaves the whitespace at the start
strip_RightOnly(s) == rstrip(s)

\* str.strip()
strip(s) == rstrip(lstrip(s))

\* ------------------------------------------------------------------------
\* class Separator(Enum); None is the absence of a separator
\* ------------------------------------------------------------------------
PIPE == "PIPE"
AND == "AND"
SEMICOLON == "SEMICOLON"
BACKGROUND == "BACKGROUND"
None == "None"
\* None where a string is expected (no character sequence equals it)
NoneStr == <<"None">>
Separator == {PIPE, AND, SEMICOLON, BACKGROUND}

\* ------------------------------------------------------------------------
\* parse_command_line
\* ------------------------------------------------------------------------
\* is_trailing that takes every & for the last character of the line
is_trailing_Always(line, i) == TRUE

\* the for-loop of the trailing-& check: every character after position i
\* is whitespace
is_trailing(line, i) == \A j \in (i + 1)..Len(line) : isspace(line[j])

\* a backslash that is an ordinary character
starts_escape_Never(char, escaped) == FALSE

\* `elif char == '\\' and not escaped`
starts_escape(char, escaped) == char = BS /\ ~escaped

\* the while loop; st = [segments, current_segment, in_single_quotes,
\* in_double_quotes, escaped]
RECURSIVE ParseScan(_, _, _)
ParseScan(line, i, st) ==
    IF i > Len(line) THEN st
    ELSE
    LET char == line[i]
        next_char == IF i + 1 <= Len(line) THEN line[i + 1] ELSE None
        n == Len(line)
    IN
    IF char = SQ /\ ~st.escaped THEN
        ParseScan(line, i + 1,
            [st EXCEPT !.in_single_quotes = ~st.in_single_quotes,
                       !.current_segment = Append(st.current_segment, char)])
    ELSE IF char = DQ /\ ~st.escaped THEN
        ParseScan(line, i + 1,
            [st EXCEPT !.in_double_quotes = ~st.in_double_quotes,
                       !.current_segment = Append(st.current_segment, char)])
    ELSE IF starts_escape(char, st.escaped) THEN
        ParseScan(line, i + 1,
            [st EXCEPT !.escaped = TRUE,
                       !.current_segment = Append(st.current_segment, char)])
    ELSE IF ~st.in_single_quotes /\ ~st.in_double_quotes /\ ~st.escaped THEN
        LET separator ==
                IF char = "|" THEN PIPE
                ELSE IF char = "&" /\ next_char = "&" THEN AND
                ELSE IF char = ";" THEN SEMICOLON
                ELSE IF char = "&" /\ is_trailing(line, i) THEN BACKGROUND
                ELSE None
            increment ==
                IF separator = AND THEN 2
                ELSE IF separator = BACKGROUND THEN n
                ELSE 1
            segment_to_add == strip(st.current_segment)
        IN
        IF separator # None THEN
            ParseScan(line, i + increment,
                [st EXCEPT !.segments =
                               IF segment_to_add # <<>>
                               THEN Append(st.segments,
                                      [text |-> segment_to_add, sep |-> separator])
                               ELSE st.segments,
                           !.current_segment = <<>>,
                           !.escaped = FALSE])
        ELSE
            ParseScan(line, i + 1,
                [st EXCEPT !.current_segment = Append(st.current_segment, char),
                           !.escaped = FALSE])
    ELSE
        ParseScan(line, i + 1,
            [st EXCEPT !.current_segment = Append(st.current_segment, char),
                       !.escaped = FALSE])

ScanStart ==
    [segments |-> <<>>, current_segment |-> <<>>,
     in_single_quotes |-> FALSE, in_double_quotes |-> FALSE, escaped |-> FALSE]

\* the code after the while loop: the last segment, the dead BACKGROUND
\* fix-up and the final filter
ParseFinish(st) ==
    LET last_segment == strip(st.current_segment)
        segments == st.segments
        is_overall_background ==
            segments # <<>> /\ segments[Len(segments)].sep = BACKGROUND
        segments1 ==
            IF is_overall_background
            THEN [segments EXCEPT ![Len(segments)].sep = None]
            ELSE segments
        final_separator_for_this_segment ==
            IF is_overall_background /\ segments1 = <<>> THEN BACKGROUND ELSE None
        segments2 ==
            IF last_segment # <<>>
            THEN Append(segments1,
                   [text |-> last_segment, sep |-> final_separator_for_this_segment])
            ELSE segments
    IN SelectSeq(segments2, LAMBDA e : e.text # <<>>)

\* The function has no raise statement and no operation that can throw:
\* it returns a list for every line.
parse_command_line(line) ==
    LET st == ParseScan(line, 1, ScanStart)
    IN [status |-> "ok",
        segments |-> ParseFinish(st),
        in_single_quotes |-> st.in_single_quotes,
        in_double_quotes |-> st.in_double_quotes]

\* ------------------------------------------------------------------------
\* String helpers used by run_shell
\* ------------------------------------------------------------------------
RECURSIVE Concat(_)
Concat(ss) == IF ss = <<>> THEN <<>> ELSE Head(ss) \o Concat(Tail(ss))

PipeJoiner == <<SP, "|", SP>>

\* JoinPipe with the list joined back to front
RECURSIVE JoinPipe_Reversed(_)
JoinPipe_Reversed(ss) ==
    IF ss = <<>> THEN <<>>
    ELSE IF Len(ss) = 1 THEN ss[1]
    ELSE JoinPipe_Reversed(Tail(ss)) \o PipeJoiner \o ss[1]

\* " | ".join(list)
RECURSIVE JoinPipe(_)
JoinPipe(ss) ==
    IF ss = <<>> THEN <<>>
    ELSE IF Len(ss) = 1 THEN ss[1]
    ELSE ss[1] \o PipeJoiner \o JoinPipe(Tail(ss))

\* s.startswith(prefix)
startswith(s, prefix) ==
    Len(s) >= Len(prefix) /\ SubSeq(s, 1, Len(prefix)) = prefix

UpperToLower ==
    [c \in {"T", "H", "P", "Y"} |->
        CASE c = "T" -> "t" [] c = "H" -> "h" [] c = "P" -> "p" [] c = "Y" -> "y"]

\* str.lower()
lower(s) == [k \in 1..Len(s) |-> IF s[k] \in DOMAIN UpperToLower THEN UpperToLower[s[k]] ELSE s[k]]

\* index of the first whitespace character of s, or Len(s) + 1
RECURSIVE FirstSpace(_, _)
FirstSpace(s, k) == IF k > Len(s) \/ isspace(s[k]) THEN k ELSE FirstSpace(s, k + 1)

\* s.split(maxsplit=1)[0] for a stripped, non-empty s
first_token(s) == SubSeq(s, 1, FirstSpace(s, 1) - 1)

\* s.split(maxsplit=1)[1] if ' ' in s else ''
remaining_args(s) ==
    LET k == FirstSpace(s, 1)
    IN IF k > Len(s) THEN <<>> ELSE lstrip(SubSeq(s, k, Len(s)))

\* ------------------------------------------------------------------------
\* shlex.split(s, posix=False): whitespace_split, no comments, quotes kept
\* in the token, a quote opens a quoted token only at the start of a token,
\* the closing quote ends the token, and no escape character.
\* states: " " between tokens, "a" in a word, SQ / DQ in a quoted token
\* ------------------------------------------------------------------------
RECURSIVE ShlexScan(_, _, _, _, _)
ShlexScan(s, i, state, token, parts) ==
    IF i > Len(s) THEN
        IF state \in {SQ, DQ} THEN [ok |-> FALSE, parts |-> <<>>]
        ELSE [ok |-> TRUE, parts |-> IF token # <<>> THEN Append(parts, token) ELSE parts]
    ELSE
    LET c == s[i] IN
    IF state = SP THEN
        IF isspace(c) THEN ShlexScan(s, i + 1, SP, <<>>, parts)
        ELSE IF c \in {SQ, DQ} THEN ShlexScan(s, i + 1, c, <<c>>, parts)
        ELSE ShlexScan(s, i + 1, "a", <<c>>, parts)
    ELSE IF state \in {SQ, DQ} THEN
        IF c = state THEN ShlexScan(s, i + 1, SP, <<>>, Append(parts, Append(token, c)))
        ELSE ShlexScan(s, i + 1, state, Append(token, c), parts)
    ELSE
        IF isspace(c) THEN ShlexScan(s, i + 1, SP, <<>>, Append(parts, token))
        ELSE ShlexScan(s, i + 1, "a", Append(token, c), parts)

shlex_split(s) == ShlexScan(s, 1, SP, <<>>, <<>>)

\* ------------------------------------------------------------------------
\* command_translator: markers and process_command
\* ------------------------------------------------------------------------
SIMULATION_MARKER_PREFIX == <<"#", "S", "I", "M", ":">>
NO_EXEC_MARKER == <<"#", "N", "O", ":">>

\* the command words of the model
w_ls == <<"l", "s">>
w_df == <<"d", "f">>
w_neofetch == <<"n", "e", "o", "f", "e", "t", "c", "h">>
w_passwd == <<"p", "a", "s", "s", "w", "d">>
w_foo == <<"f", "o", "o">>
w_help == <<"h", "e", "l", "p">>
w_history == <<"h", "i", "s", "t", "o", "r", "y">>
w_exit == <<"e", "x", "i", "t">>
w_quit == <<"q", "u", "i", "t">>
w_cd == <<"c", "d">>
w_alias == <<"a", "l", "i", "a", "s">>
w_unalias == <<"u", "n", "a", "l", "i", "a", "s">>
w_export == <<"e", "x", "p", "o", "r", "t">>
w_unset == <<"u", "n", "s", "e", "t">>
w_ll == <<"l", "l">>
w_la == <<"l", "a">>
a_l == <<"-", "l">>
a_la == <<"-", "l", "a">>
a_T == <<"-", "T">>

\* the command strings the handlers build (abbreviated)
ps_GetChildItem == <<"G", "c", "i">>
ps_GetVolume == <<"G", "v", "o">>
ps_GetPSDrive == <<"G", "p", "d">>

RECURSIVE JoinSpace(_)
JoinSpace(ss) ==
    IF ss = <<>> THEN <<>>
    ELSE IF Len(ss) = 1 THEN ss[1]
    ELSE ss[1] \o <<SP>> \o JoinSpace(Tail(ss))

\* translate_ls: "Get-ChildItem" followed by the parameters
translate_ls(args) ==
    [result |-> JoinSpace(<<ps_GetChildItem>> \o args), needs_elevation |-> FALSE]

\* translate_df: Get-PSDrive, or Get-Volume with elevation for -T
translate_df(args) ==
    IF \E k \in 1..Len(args) : args[k] = a_T
    THEN [result |-> ps_GetVolume, needs_elevation |-> TRUE]
    ELSE [result |-> ps_GetPSDrive, needs_elevation |-> FALSE]

\* translate_neofetch_simulated: prints, returns the simulation marker
translate_neofetch_simulated(args) ==
    [result |-> SIMULATION_MARKER_PREFIX \o w_neofetch, needs_elevation |-> FALSE]

\* translate_passwd_guide: prints the guide, returns the no-exec marker
translate_passwd_guide(args) ==
    [result |-> NO_EXEC_MARKER \o w_passwd, needs_elevation |-> FALSE]

\* the keys of TRANSLATION_MAP that the model keeps
TRANSLATION_MAP == {w_ls, w_df, w_neofetch, w_passwd}

\* process_command: the handler of the lower-cased command, or (None, False)
\* for a command without handler
process_command(command, args) ==
    LET cmd_lower == lower(command) IN
    IF cmd_lower = w_ls THEN translate_ls(args)
    ELSE IF cmd_lower = w_df THEN translate_df(args)
    ELSE IF cmd_lower = w_neofetch THEN translate_neofetch_simulated(args)
    ELSE IF cmd_lower = w_passwd THEN translate_passwd_guide(args)
    ELSE [result |-> NoneStr, needs_elevation |-> FALSE]

\* the list `builtins` of run_shell
builtins == {w_help, w_exit, w_quit, w_cd, w_history, w_alias, w_unalias, w_export, w_unset}

\* default_aliases
default_aliases == [n \in {w_ll, w_la} |->
                      IF n = w_ll THEN w_ls \o <<SP>> \o a_l ELSE w_ls \o <<SP>> \o a_la]

\* the alias substitution on the first token of a segment
alias_expand(als, command_str) ==
    LET potential_alias == first_token(command_str) IN
    IF potential_alias \in DOMAIN als
    THEN strip(als[potential_alias] \o <<SP>> \o remaining_args(command_str))
    ELSE command_str

\* ------------------------------------------------------------------------
\* Helpers of the built-ins: `name=value` arguments, os.path.expandvars,
\* the directories of the file system, the environment
\* ------------------------------------------------------------------------
EQ == "="
DOLLAR == "$"

\* '=' in s
has_eq(s) == \E k \in 1..Len(s) : s[k] = EQ

\* index of the first '=' of s, or Len(s) + 1
RECURSIVE FirstEq(_, _)
FirstEq(s, k) == IF k > Len(s) \/ s[k] = EQ THEN k ELSE FirstEq(s, k + 1)

\* s.split('=', 1) for an s that contains '='
split_eq(s) ==
    LET k == FirstEq(s, 1)
    IN [name |-> SubSeq(s, 1, k - 1), value |-> SubSeq(s, k + 1, Len(s))]

\* s.strip("'\"")
RECURSIVE lstrip_quotes(_)
lstrip_quotes(s) ==
    IF s # <<>> /\ s[1] \in {SQ, DQ} THEN lstrip_quotes(Tail(s)) ELSE s

RECURSIVE rstrip_quotes(_)
rstrip_quotes(s) ==
    IF s # <<>> /\ s[Len(s)] \in {SQ, DQ}
    THEN rstrip_quotes(SubSeq(s, 1, Len(s) - 1)) ELSE s

strip_quotes(s) == rstrip_quotes(lstrip_quotes(s))

\* the characters of a variable name in os.path.expandvars
VarChars ==
    {"a", "b", "c", "d", "e", "f", "g", "h", "i", "j", "k", "l", "m", "n", "o",
     "p", "q", "r", "s", "t", "u", "v", "w", "x", "y", "z",
     "A", "B", "C", "D", "E", "F", "G", "H", "I", "J", "K", "L", "M", "N", "O",
     "P", "Q", "R", "S", "T", "U", "V", "W", "X", "Y", "Z",
     "0", "1", "2", "3", "4", "5", "6", "7", "8", "9", "_"}

\* the end of the run of name characters that starts at s[k]
RECURSIVE VarEnd(_, _)
VarEnd(s, k) == IF k > Len(s) \/ s[k] \notin VarChars THEN k ELSE VarEnd(s, k + 1)

\* os.path.expandvars(s) (ntpath) from position k over the mapping environ,
\* for strings without quotes, % and braces: $$ is a dollar sign, $NAME is
\* replaced when NAME is in environ and left in place otherwise
RECURSIVE expandvars(_, _, _)
expandvars(s, k, environ) ==
    IF k > Len(s) THEN <<>>
    ELSE IF s[k] = DOLLAR /\ k < Len(s) /\ s[k + 1] = DOLLAR THEN
        <<DOLLAR>> \o expandvars(s, k + 2, environ)
    ELSE IF s[k] = DOLLAR THEN
        LET e == VarEnd(s, k + 1)
            name == SubSeq(s, k + 1, e - 1)
        IN IF name # <<>> /\ name \in DOMAIN environ
           THEN environ[name] \o expandvars(s, e, environ)
           ELSE SubSeq(s, k, e - 1) \o expandvars(s, e, environ)
    ELSE <<s[k]>> \o expandvars(s, k + 1, environ)

\* names of environment variables
n_PWD == <<"P", "W", "D">>
n_H == <<"H">>
n_V == <<"V">>

\* paths
d_home == <<"/", "h">>
d_tmp == <<"/", "t">>
f_file == <<"/", "f">>
d_missing == <<"/", "x">>

\* the directories and the plain files that exist
Directories == {d_home, d_tmp}
Files == {f_file}

\* os.path.expanduser("~")
expanduser_home == d_home

\* os.environ, the mapping Python keeps of the environment at start-up;
\* nothing in run_shell assigns to it
os_environ == [n \in {n_H} |-> d_home]

\* os.chdir(path): the exception it raises, or "ok"
chdir(path) ==
    IF path \in Directories THEN "ok"
    ELSE IF path \in Files THEN "NotADirectoryError"
    ELSE "FileNotFoundError"

\* d[key] = value on a mapping
SetItem(d, key, value) == [k \in DOMAIN d \cup {key} |-> IF k = key THEN value ELSE d[k]]

\* del d[key]
DelItem(d, key) == [k \in DOMAIN d \ {key} |-> d[k]]

\* aliases.update(loaded_aliases)
Update(d, e) == [k \in DOMAIN d \cup DOMAIN e |-> IF k \in DOMAIN e THEN e[k] ELSE d[k]]

EmptyMap == [k \in {} |-> <<>>]

\* ------------------------------------------------------------------------
\* Input lines of the sessions
\* ------------------------------------------------------------------------
MaxSegs == 3         \* segments in a generated line
MaxJobs == 2         \* background jobs started in a session
MaxLines == 3        \* lines entered in a session
MaxPid == 2          \* process ids the system hands out

op_pipe == <<"|">>
op_and == <<"&", "&">>
op_semi == <<";">>
op_bg == <<"&">>
Ops == {op_pipe, op_and, op_semi}

\* seg1 op1 seg2 ... segk, separated by single spaces
RECURSIVE Render(_, _)
Render(segs, ops) ==
    IF Len(segs) = 1 THEN segs[1]
    ELSE segs[1] \o <<SP>> \o ops[1] \o <<SP>> \o Render(Tail(segs), Tail(ops))

Chains(Words, k) ==
    {Render(segs, ops) : segs \in [1..k -> Words], ops \in [1..(k - 1) -> Ops]}

WithBg(l) == l \o <<SP>> \o op_bg

\* a command alone, a command followed by foo, and pipelines of three and
\* more commands
ChainLines ==
    {w_ls, w_foo}
    \cup {Render(<<w, w_foo>>, <<op>>) : w \in {w_ls, w_foo}, op \in Ops}
    \cup {Render([j \in 1..k |-> IF j = 1 THEN w_ls ELSE w_foo],
                 [j \in 1..(k - 1) |-> op_pipe]) : k \in 3..MaxSegs}

BgLines ==
    {WithBg(l) : l \in Chains({w_foo}, 1) \cup Chains({w_foo}, 2)}

SpecialLines ==
    { <<>>, <<SP>>, op_bg, op_pipe,
      w_ls \o <<SP>> \o op_pipe,
      w_help, w_history, w_exit, w_quit,
      WithBg(w_help),
      w_ll, w_ll \o <<SP>> \o op_pipe \o <<SP>> \o w_la,
      w_df, w_df \o <<SP>> \o a_T,
      w_df \o <<SP>> \o a_T \o <<SP>> \o op_pipe \o <<SP>> \o w_foo,
      w_neofetch, w_neofetch \o <<SP>> \o op_and \o <<SP>> \o w_foo,
      w_neofetch \o <<SP>> \o op_pipe \o <<SP>> \o w_foo,
      w_passwd \o <<SP>> \o op_semi \o <<SP>> \o w_foo,
      w_foo \o <<SP>> \o op_semi \o <<SP>> \o w_help,
      <<SQ>> \o w_foo,
      w_foo \o <<SP>> \o op_and \o <<SP, SQ>> \o w_foo }

LinesMain == ChainLines \cup BgLines \cup SpecialLines

\* names and values of the alias lines
w_x == <<"x">>
AliasNames == {w_x, w_ll, w_alias}
AliasValues == {w_foo, w_ls}

\* seg1 seg2 ... separated by single spaces
Words(ws) == JoinSpace(ws)

\* lines about the built-ins
AliasLines ==
    { w_alias,
      Words(<<w_alias, w_x \o <<EQ>> \o w_foo>>),
      Words(<<w_alias, w_x \o <<EQ, SQ>> \o w_ls \o <<SQ>> >>),
      Words(<<w_alias, w_ll \o <<EQ>> \o w_foo>>),
      Words(<<w_alias, w_alias \o <<EQ>> \o w_foo>>),
      Words(<<w_alias, w_x>>), Words(<<w_alias, w_ll>>), Words(<<w_alias, w_alias>>),
      w_unalias, Words(<<w_unalias, w_x>>), Words(<<w_unalias, w_ll>>),
      w_x, w_ll,
      Render(<<w_foo, w_x>>, <<op_semi>>),
      Render(<<w_foo, w_ll>>, <<op_and>>),
      Render(<<w_foo, w_x>>, <<op_pipe>>) }

EnvLines ==
    { w_export, Words(<<w_export, n_V>>), Words(<<w_export, n_H>>),
      Words(<<w_export, n_V \o <<EQ>> \o <<"a">> >>),
      Words(<<w_export, n_V \o <<EQ, DOLLAR>> \o n_H>>),
      w_unset, Words(<<w_unset, n_V>>), Words(<<w_unset, n_H>>),
      w_cd, Words(<<w_cd, d_tmp>>), Words(<<w_cd, d_missing>>),
      Words(<<w_cd, f_file>>), Words(<<w_cd, <<DOLLAR>> \o n_H>>) }

PlacementLines ==
    { Words(<<w_cd, d_tmp, op_pipe>>), Words(<<w_exit, op_pipe>>),
      Words(<<w_cd, d_tmp, op_semi>>),
      Words(<<w_cd, d_tmp, op_bg>>),
      Render(<<Words(<<w_cd, d_tmp>>), w_foo>>, <<op_semi>>),
      Render(<<w_foo, Words(<<w_cd, d_tmp>>)>>, <<op_and>>),
      Render(<<w_foo, w_help>>, <<op_pipe>>),
      Render(<<w_foo, <<"H">> \o Tail(w_help)>>, <<op_semi>>),
      Render(<<w_foo, w_foo, w_exit>>, <<op_pipe, op_semi>>),
      Render(<<w_foo, w_x>>, <<op_semi>>),
      Render(<<w_foo, w_x>>, <<op_pipe>>),
      w_x, w_help, w_exit }

\* lines that start processes of every kind
ProcessLines ==
    { Words(<<w_df, a_T>>), WithBg(Render(<<w_foo, w_foo>>, <<op_semi>>)) }

LinesAlias == AliasLines \cup ProcessLines
LinesEnv == EnvLines \cup PlacementLines \cup ProcessLines

\* exit codes a process reports
ExitCodes == {0, 1}
Pids == 1..MaxPid

\* ------------------------------------------------------------------------
\* State
\* ------------------------------------------------------------------------
VARIABLES
    pline,      \* the line handed to parse_command_line
    presult,    \* its result; status "pending" before the call
    stream,     \* a foreground dispatch seen line by line: the generator
                \* _run_powershell_command and the loop that reads it
    inputs,     \* the lines the user may type in this session
    raw_input_line,  \* the line being processed (empty between iterations)
    pc,         \* where run_shell is: "prompt", "segment", "fg", "confirm",
                \* "poll", "returned", "raised", or "off"
    parsed_commands,
    cmd_index,  \* position in parsed_commands, counted from 1
    last_return_code,
    pipeline_failed_for_and,
    current_pipeline_segments_translated,
    current_pipeline_original_commands,
    needs_elevation_overall,
    pending,    \* final_command_exec_str and original_cmd_display of the
                \* dispatch the loop is blocked in
    background_jobs,  \* job_id -> [cmd: swodnil_cmd_str, exited: poll() is not
                      \* None, returncode]
    next_job_id,
    aliases,
    log,        \* what the current loop iteration has done so far
    last_iter,  \* how the previous loop iteration ended
    lines_read, \* the number of lines entered so far
    history_added,  \* the number of lines appended to command_history_list
    allocated,  \* the job ids handed out so far, in order
    reported,   \* job_id -> number of completion lines printed for it
    cwd,        \* os.getcwd()
    shell_environment,    \* the mapping held by shell_environment
    process_environment,  \* the environment block of the Swodnil process
    alias_store,  \* ALIAS_FILE_PATH: [available: the path is set, exists: the
                  \* file exists, doc: the document in it]
    typed       \* what the user has asked for at the prompt: bound maps a
                \* name to the value of the last `alias name=value` line
                \* typed for it, or Removed after `unalias name`; asked is
                \* the name of the `alias name` line typed last, if any;
                \* shadowed tells that one of these lines was typed while
                \* its first word was itself the name of an alias

parsevars == <<pline, presult, stream>>
linevars == <<raw_input_line, parsed_commands, cmd_index, last_return_code, pipeline_failed_for_and,
              current_pipeline_segments_translated,
              current_pipeline_original_commands, needs_elevation_overall, pending>>
jobvars == <<background_jobs, next_job_id, allocated, reported>>
envvars == <<inputs, lines_read, history_added, typed>>
shellvars == <<cwd, shell_environment, process_environment, alias_store>>
vars == <<parsevars, envvars, pc, linevars, jobvars, aliases, shellvars, log, last_iter>>

NoPending == [final_command_exec_str |-> <<>>, original_cmd_display |-> <<>>]
NoResult == [status |-> "pending", segments |-> <<>>,
             in_single_quotes |-> FALSE, in_double_quotes |-> FALSE]

\* the stream of a dispatch that has not begun: `at` is the place where
\* the generator goes on, out_left and err_left are the lines the process
\* has still to write, yielded are the tuples handed to the loop so far,
\* displayed the calls of display_streamed_output so far
NoStream ==
    [at |-> "off", launch |-> "none", out_left |-> 0, err_left |-> 0,
     yielded |-> <<>>, displayed |-> <<>>, current_pipeline_return_code |-> 0]

\* how a loop iteration ended: the path it took, whether it reached the
\* check for completed jobs, the built-in it ran with its
\* last_return_code_builtin, the ui_manager call it made (out), which
\* message (msg) about which name (arg) and value; line is the line that
\* was read, when the iteration ended at a built-in or a `continue`; save is what _save_aliases did, if it was called;
\* skip_left is the value of pipeline_failed_for_and at the end of a line
\* that took the pipeline path
IterSummary(kind, polled, name) ==
    [kind |-> kind, polled |-> polled, name |-> name, line |-> <<>>, rc |-> 0,
     out |-> "none", msg |-> "none", arg |-> <<>>, value |-> <<>>, save |-> "none",
     skip_left |-> FALSE]

NoIter == IterSummary("none", FALSE, <<>>)

Removed == <<"Removed">>
NoName == <<"NoName">>
NothingTyped == [bound |-> EmptyMap, asked |-> NoName, shadowed |-> FALSE]

\* the alias file as run_shell finds it
NoAliasFile == [available |-> TRUE, exists |-> FALSE, doc |-> EmptyMap]

\* lines 239-244: the default aliases, updated with the stored document
load_aliases(store) ==
    IF store.available /\ store.exists
    THEN Update(default_aliases, store.doc)
    ELSE default_aliases

\* an entry of the log; for a process start aux is the mapping passed as
\* env= to the process
Ev(ev, idx, text, code, aux) ==
    [ev |-> ev, idx |-> idx, text |-> text, code |-> code, aux |-> aux]

\* the state of run_shell before the first prompt
ShellStart ==
    /\ raw_input_line = <<>>
    /\ parsed_commands = <<>>
    /\ cmd_index = 0
    /\ last_return_code = 0
    /\ pipeline_failed_for_and = FALSE
    /\ current_pipeline_segments_translated = <<>>
    /\ current_pipeline_original_commands = <<>>
    /\ needs_elevation_overall = FALSE
    /\ pending = NoPending
    /\ background_jobs = <<>>
    /\ next_job_id = 1
    /\ aliases = load_aliases(alias_store)
    /\ log = <<>>
    /\ last_iter = NoIter
    /\ lines_read = 0
    /\ history_added = 0
    /\ allocated = <<>>
    /\ reported = [j \in {} |-> 0]
    /\ cwd = d_home
    /\ shell_environment = os_environ
    /\ process_environment = os_environ
    /\ typed = NothingTyped

Init ==
    /\ pline = <<>>
    /\ presult = NoResult
    /\ stream = NoStream
    /\ inputs = LinesMain
    /\ pc = "prompt"
    /\ alias_store = NoAliasFile
    /\ ShellStart

\* ------------------------------------------------------------------------
\* run_shell: 1. read input, 2. parse, single built-in check
\* ------------------------------------------------------------------------

\* `continue`: back to the prompt without reaching the end of the loop body
Continue(kind, name, line) ==
    /\ pc' = "prompt"
    /\ last_iter' = [IterSummary(kind, FALSE, name) EXCEPT !.line = line]
    /\ log' = <<>>
    /\ UNCHANGED <<linevars, jobvars, aliases, shellvars>>

\* a line that starts with the skip flag the line before has left
line_start_flag_Keeps(flag) == flag

\* `pipeline_failed_for_and = False` before the for loop
line_start_flag(flag) == FALSE

\* the start of the pipeline path: the per-line variables are initialised
StartPipeline(line, parsed) ==
    /\ raw_input_line' = line
    /\ pc' = "segment"
    /\ parsed_commands' = parsed
    /\ cmd_index' = 1
    /\ last_return_code' = 0
    /\ pipeline_failed_for_and' = line_start_flag(pipeline_failed_for_and)
    /\ current_pipeline_segments_translated' = <<>>
    /\ current_pipeline_original_commands' = <<>>
    /\ needs_elevation_overall' = FALSE
    /\ pending' = NoPending
    /\ log' = <<>>
    /\ UNCHANGED <<jobvars, aliases, shellvars, last_iter>>

\* _save_aliases that leaves the file as it is
_save_aliases_NoWrite(store, aliases_to_save, write_ok) == store

\* _save_aliases: the whole map is dumped into ALIAS_FILE_PATH; without a
\* path, or when the file cannot be written, a message is shown and the
\* file stays as it is
_save_aliases(store, aliases_to_save, write_ok) ==
    IF ~store.available THEN store
    ELSE IF write_ok THEN [store EXCEPT !.exists = TRUE, !.doc = aliases_to_save]
    ELSE store

\* what _save_aliases reports: nothing when the file is written, a warning
\* without a path, an error when the file cannot be written
save_status(store, write_ok) ==
    IF ~store.available THEN "no_path"
    ELSE IF write_ok THEN "written"
    ELSE "failed"

\* alias_define that keeps the quotes and binds the text after the last '='
alias_define_WholeArgument(als, arg) == SetItem(als, split_eq(arg).name, arg)

\* `name, cmd_val = args[0].split('=', 1); cmd_val = cmd_val.strip("'\"");
\* aliases[name] = cmd_val`
alias_define(als, arg) ==
    SetItem(als, split_eq(arg).name, strip_quotes(split_eq(arg).value))

\* the state a built-in works on, and what it reports
BuiltinState ==
    [aliases |-> aliases, env |-> shell_environment, penv |-> process_environment,
     cwd |-> cwd, store |-> alias_store,
     rc |-> 0, out |-> "none", msg |-> "none", arg |-> <<>>, value |-> <<>>,
     save |-> "none"]

\* a ui_manager call and the value of last_return_code_builtin
Message(b, out, msg, arg, value, rc) ==
    [b EXCEPT !.out = out, !.msg = msg, !.arg = arg, !.value = value, !.rc = rc]

\* shell_environment[key] = value: shell_environment is the os._Environ
\* object that copy.deepcopy(os.environ) returns, with a mapping of its own
\* and the putenv of os.environ, so the assignment also calls os.putenv
environ_setitem(b, key, value) ==
    [b EXCEPT !.env = SetItem(@, key, value), !.penv = SetItem(@, key, value)]

\* del shell_environment[key]: os.unsetenv, then the mapping
environ_delitem(b, key) ==
    [b EXCEPT !.env = DelItem(@, key), !.penv = DelItem(@, key)]

builtin_cd(b, args) ==
    LET target_dir == IF args = <<>> THEN expanduser_home ELSE args[1]
        expanded_target_dir == expandvars(target_dir, 1, os_environ)
        e == chdir(expanded_target_dir)
    IN IF e = "ok"
       THEN environ_setitem([b EXCEPT !.cwd = expanded_target_dir],
                            n_PWD, expanded_target_dir)
       ELSE IF e = "FileNotFoundError"
       THEN Message(b, "display_error", "cd_no_such_file_or_directory",
                    expanded_target_dir, <<>>, 1)
       ELSE Message(b, "display_error", "cd_failed", expanded_target_dir, <<>>, 1)

builtin_alias(b, args, write_ok) ==
    IF args = <<>> THEN Message(b, "display_list", "aliases", <<>>, <<>>, 0)
    ELSE IF has_eq(args[1]) THEN
        LET als == alias_define(b.aliases, args[1])
            name == split_eq(args[1]).name
        IN Message([b EXCEPT !.aliases = als,
                             !.store = _save_aliases(b.store, als, write_ok),
                             !.save = save_status(b.store, write_ok)],
                   "display_info", "alias_set", name, <<>>, 0)
    ELSE
        LET name == args[1] IN
        IF name \in DOMAIN b.aliases
        THEN Message(b, "print", "alias_shown", name, b.aliases[name], 0)
        ELSE Message(b, "display_error", "alias_not_found", name, <<>>, 1)

builtin_unalias(b, args, write_ok) ==
    IF args = <<>> THEN Message(b, "display_error", "unalias_missing_operand", <<>>, <<>>, 1)
    ELSE
        LET name == args[1] IN
        IF name \in DOMAIN b.aliases
        THEN LET als == DelItem(b.aliases, name)
             IN Message([b EXCEPT !.aliases = als,
                                  !.store = _save_aliases(b.store, als, write_ok),
                                  !.save = save_status(b.store, write_ok)],
                        "display_info", "alias_removed", name, <<>>, 0)
        ELSE Message(b, "display_error", "unalias_not_found", name, <<>>, 1)

builtin_export(b, args) ==
    IF args = <<>> \/ ~has_eq(args[1])
    THEN Message(b, "display_error", "export_invalid_format", <<>>, <<>>, 1)
    ELSE
        LET name == split_eq(args[1]).name
            value == strip_quotes(split_eq(args[1]).value)
        IN Message(environ_setitem(b, name, expandvars(value, 1, os_environ)),
                   "display_info", "exported", name, <<>>, 0)

builtin_unset(b, args) ==
    IF args = <<>> THEN Message(b, "display_error", "unset_missing_operand", <<>>, <<>>, 1)
    ELSE
        LET name == args[1] IN
        IF name \in DOMAIN b.env
        THEN Message(environ_delitem(b, name), "display_info", "unset", name, <<>>, 0)
        ELSE Message(b, "display_warning", "unset_not_found", name, <<>>, 0)

\* the chain `if cmd_lower == ...` of the built-ins other than exit and quit
builtin_result(cmd_lower, args, write_ok) ==
    LET b == BuiltinState IN
    IF cmd_lower = w_help THEN Message(b, "display_help_page", "help", <<>>, <<>>, 0)
    ELSE IF cmd_lower = w_cd THEN builtin_cd(b, args)
    ELSE IF cmd_lower = w_history THEN Message(b, "display_list", "history", <<>>, <<>>, 0)
    ELSE IF cmd_lower = w_alias THEN builtin_alias(b, args, write_ok)
    ELSE IF cmd_lower = w_unalias THEN builtin_unalias(b, args, write_ok)
    ELSE IF cmd_lower = w_export THEN builtin_export(b, args)
    ELSE builtin_unset(b, args)

\* the built-ins of the single-command path: exit and quit raise EOFError,
\* which no handler of run_shell catches; the others end in `continue`
\* with last_return_code_builtin dropped
ExecuteBuiltin(line, cmd_lower, args, write_ok) ==
    IF cmd_lower \in {w_exit, w_quit}
    THEN /\ pc' = "raised"
         /\ last_iter' = [IterSummary("builtin", FALSE, cmd_lower) EXCEPT !.line = line]
         /\ log' = <<>>
         /\ UNCHANGED <<linevars, jobvars, aliases, shellvars>>
    ELSE LET b == builtin_result(cmd_lower, args, write_ok) IN
         /\ pc' = "prompt"
         /\ aliases' = b.aliases
         /\ shell_environment' = b.env
         /\ process_environment' = b.penv
         /\ cwd' = b.cwd
         /\ alias_store' = b.store
         /\ last_iter' = [IterSummary("builtin", FALSE, cmd_lower) EXCEPT
                            !.line = line, !.rc = b.rc, !.out = b.out,
                            !.msg = b.msg, !.arg = b.arg, !.value = b.value,
                            !.save = b.save]
         /\ log' = <<>>
         /\ UNCHANGED <<linevars, jobvars>>

\* the line asks for a background job (used to cap next_job_id)
HasBackground(parsed) == \E k \in 1..Len(parsed) : parsed[k].sep = BACKGROUND

\* the lines `alias name=value`, `alias name='value'`, `unalias name` and
\* `alias name` as typed
AliasDefLine(n, v) == w_alias \o <<SP>> \o n \o <<EQ>> \o v
AliasQuotedDefLine(n, v) == w_alias \o <<SP>> \o n \o <<EQ, SQ>> \o v \o <<SQ>>
UnaliasLine(n) == w_unalias \o <<SP>> \o n
AliasQueryLine(n) == w_alias \o <<SP>> \o n

\* what the user has asked for once `line` is typed, als being the aliases
\* at that moment
TypedAfter(t, line, als) ==
    LET defs == {d \in AliasNames \X AliasValues :
                    line \in {AliasDefLine(d[1], d[2]), AliasQuotedDefLine(d[1], d[2])}}
        dels == {n \in AliasNames : line = UnaliasLine(n)}
        asks == {n \in AliasNames : line = AliasQueryLine(n)}
    IN [bound |->
          IF defs # {} THEN LET d == CHOOSE d \in defs : TRUE
                            IN SetItem(t.bound, d[1], d[2])
          ELSE IF dels # {} THEN SetItem(t.bound, CHOOSE n \in dels : TRUE, Removed)
          ELSE t.bound,
        asked |-> IF asks # {} THEN CHOOSE n \in asks : TRUE ELSE NoName,
        shadowed |->
          \/ t.shadowed
          \/ /\ defs # {} \/ dels # {} \/ asks # {}
             /\ first_token(line) \in DOMAIN als]

\* history_append for every line
history_append_Always(line, n) == n + 1

\* `if raw_input_line.strip(): command_history_list.append(raw_input_line)`,
\* n being the number of lines appended so far
history_append(line, n) == IF strip(line) # <<>> THEN n + 1 ELSE n

\* the user enters a line at the prompt: raw_input_line = line
Prompt(line, write_ok) ==
    /\ pc = "prompt"
    /\ line \in inputs
    /\ lines_read < MaxLines
    /\ lines_read' = lines_read + 1
    /\ history_added' = history_append(line, history_added)
    /\ typed' = TypedAfter(typed, line, aliases)
    /\ next_job_id > MaxJobs => ~HasBackground(parse_command_line(line).segments)
    /\ UNCHANGED <<parsevars, inputs>>
    /\ IF strip(line) = <<>> THEN Continue("blank", <<>>, line)
       ELSE
       LET parsed == parse_command_line(line).segments IN
       IF parsed = <<>> THEN Continue("no_segments", <<>>, line)
       ELSE IF Len(parsed) = 1 THEN
           LET single_command_str == parsed[1].text
               single_separator == parsed[1].sep
           IN
           IF single_separator = BACKGROUND THEN
               LET temp == shlex_split(single_command_str)
                   cmd_name_for_error ==
                       IF temp.ok /\ temp.parts # <<>> THEN temp.parts[1] ELSE <<>>
               IN Continue("background_single", cmd_name_for_error, line)
           ELSE
           LET processed_single_command_str == alias_expand(aliases, single_command_str)
               sp == shlex_split(processed_single_command_str)
           IN
           IF ~sp.ok THEN Continue("split_error", <<>>, line)
           ELSE IF sp.parts # <<>> /\ lower(sp.parts[1]) \in builtins
           THEN ExecuteBuiltin(line, lower(sp.parts[1]), Tail(sp.parts), write_ok)
           ELSE StartPipeline(line, parsed)
       ELSE StartPipeline(line, parsed)

\* Ctrl+C at the prompt: `continue`
PromptInterrupt ==
    /\ pc = "prompt"
    /\ Continue("interrupt", <<>>, <<>>)
    /\ typed' = [typed EXCEPT !.asked = NoName]
    /\ UNCHANGED <<parsevars, inputs, lines_read, history_added>>

\* Ctrl+D at the prompt: `break`, run_shell returns
PromptEOF ==
    /\ pc = "prompt"
    /\ pc' = "returned"
    /\ UNCHANGED <<parsevars, envvars, linevars, jobvars, aliases, shellvars, log,
                   last_iter>>

\* ------------------------------------------------------------------------
\* run_shell: the for loop over parsed_commands
\* ------------------------------------------------------------------------

\* the variables the loop body writes, as a record
LoopState ==
    [pc |-> pc, cmd_index |-> cmd_index, rc |-> last_return_code,
     flag |-> pipeline_failed_for_and,
     translated |-> current_pipeline_segments_translated,
     originals |-> current_pipeline_original_commands,
     elev |-> needs_elevation_overall, pending |-> pending,
     jobs |-> background_jobs, next_job_id |-> next_job_id,
     allocated |-> allocated, log |-> log]

SetLoopState(r) ==
    /\ pc' = r.pc
    /\ cmd_index' = r.cmd_index
    /\ last_return_code' = r.rc
    /\ pipeline_failed_for_and' = r.flag
    /\ current_pipeline_segments_translated' = r.translated
    /\ current_pipeline_original_commands' = r.originals
    /\ needs_elevation_overall' = r.elev
    /\ pending' = r.pending
    /\ background_jobs' = r.jobs
    /\ next_job_id' = r.next_job_id
    /\ allocated' = r.allocated
    /\ log' = r.log
    /\ UNCHANGED <<parsevars, envvars, raw_input_line, parsed_commands, aliases,
                   shellvars, last_iter, reported>>

\* the next element of the for loop, or the end of the loop
Advance(r) ==
    [r EXCEPT !.cmd_index = cmd_index + 1,
              !.pc = IF cmd_index = Len(parsed_commands) THEN "poll" ELSE "segment"]

\* `pipeline_failed_for_and = True; break`
Break(r, what) ==
    [r EXCEPT !.flag = TRUE, !.pc = "poll",
              !.log = Append(@, Ev("error", cmd_index, <<>>, 0, what))]

\* AfterUnitFlag without the test of the exit status after `&&`
AfterUnitFlag_IgnoresAnd(separator, rc, flag) ==
    IF separator = SEMICOLON THEN FALSE ELSE flag

\* AfterUnitFlag with the exit status tested after every separator
AfterUnitFlag_AnyFailureSkips(separator, rc, flag) ==
    IF rc # 0 THEN TRUE
    ELSE IF separator = SEMICOLON THEN FALSE
    ELSE flag

\* "Conditional execution logic based on last_return_code"
AfterUnitFlag(separator, rc, flag) ==
    IF separator = AND /\ rc # 0 THEN TRUE
    ELSE IF separator = SEMICOLON THEN FALSE
    ELSE flag

\* FinishUnit that drops the exit status
FinishUnit_NoRecord(r, rc) ==
    LET separator == parsed_commands[cmd_index].sep IN
    Advance([r EXCEPT !.flag = AfterUnitFlag(separator, rc, r.flag),
                      !.pending = NoPending])

\* the end of a dispatch: the exit status is recorded, the flag is updated
\* and the loop goes on
FinishUnit(r, rc) ==
    LET separator == parsed_commands[cmd_index].sep IN
    Advance([r EXCEPT !.rc = rc,
                      !.flag = AfterUnitFlag(separator, rc, r.flag),
                      !.pending = NoPending,
                      !.log = Append(@, Ev("rc", cmd_index, <<>>, rc, <<>>))])

\* register_job with the id taken from the size of the job table
register_job_TableSize(jobs, next_id, display) ==
    LET id == Cardinality(DOMAIN jobs) + 1 IN
    [jobs |-> [j \in DOMAIN jobs \cup {id} |->
                 IF j = id
                 THEN [cmd |-> display, exited |-> FALSE, returncode |-> 0]
                 ELSE jobs[j]],
     job_id |-> id,
     next_job_id |-> id + 1]

\* register_job without `next_job_id += 1`
register_job_KeepsCounter(jobs, next_id, display) ==
    [jobs |-> [j \in DOMAIN jobs \cup {next_id} |->
                 IF j = next_id
                 THEN [cmd |-> display, exited |-> FALSE, returncode |-> 0]
                 ELSE jobs[j]],
     job_id |-> next_id,
     next_job_id |-> next_id]

\* `job_id = next_job_id; background_jobs[job_id] = process; next_job_id += 1`
register_job(jobs, next_id, display) ==
    [jobs |-> [j \in DOMAIN jobs \cup {next_id} |->
                 IF j = next_id
                 THEN [cmd |-> display, exited |-> FALSE, returncode |-> 0]
                 ELSE jobs[j]],
     job_id |-> next_id,
     next_job_id |-> next_id + 1]

\* is_background_job for every unit of a line that ends in &
is_background_job_WholeLine(separator, index) ==
    parsed_commands[Len(parsed_commands)].sep = BACKGROUND

\* `separator == Separator.BACKGROUND and cmd_index == len(parsed_commands) - 1`
\* (index counts from 1)
is_background_job(separator, index) ==
    separator = BACKGROUND /\ index = Len(parsed_commands)

\* a unit of simulations only that is recorded as failed
standalone_simulation_Fails(r) == FinishUnit(r, 1)

\* `elif is_segment_simulated_and_standalone_valid: last_return_code = 0`
standalone_simulation(r) == FinishUnit(r, 0)

\* the dispatch of an assembled unit (the branch `separator != PIPE`)
Dispatch(r0, separator, translated, originals, temp_elev, is_sim, spawn_ok, pid) ==
    LET final_command_exec_str ==
            IF ~is_sim \/ translated # <<>> THEN JoinPipe(translated) ELSE <<>>
        original_cmd_display == JoinPipe(originals)
        r == [r0 EXCEPT !.translated = <<>>, !.originals = <<>>, !.elev = FALSE]
        is_bg == is_background_job(separator, cmd_index)
        can_elevate_this ==
            /\ temp_elev
            /\ ~is_bg
            /\ (Len(parsed_commands) = 1 \/ separator \notin {PIPE, AND, SEMICOLON})
    IN
    IF final_command_exec_str # <<>> THEN
        IF is_bg THEN
            IF spawn_ok THEN
                LET reg == register_job(r.jobs, r.next_job_id, original_cmd_display)
                    job_id == reg.job_id
                IN
                FinishUnit(
                    [r EXCEPT
                       !.jobs = reg.jobs,
                       !.next_job_id = reg.next_job_id,
                       !.allocated = Append(@, job_id),
                       !.log = @ \o <<Ev("spawn_bg", cmd_index, final_command_exec_str, 0,
                                         shell_environment),
                                      Ev("job_started", cmd_index, original_cmd_display,
                                         job_id, pid)>>],
                    0)
            ELSE
                FinishUnit(
                    [r EXCEPT !.log = Append(@, Ev("error", cmd_index, <<>>, 0,
                                                   "background_start_failed"))],
                    1)
        ELSE IF can_elevate_this THEN
            [r EXCEPT !.pc = "confirm",
                      !.pending = [final_command_exec_str |-> final_command_exec_str,
                                   original_cmd_display |-> original_cmd_display]]
        ELSE
            IF spawn_ok THEN
                [r EXCEPT !.pc = "fg",
                          !.pending = [final_command_exec_str |-> final_command_exec_str,
                                       original_cmd_display |-> original_cmd_display],
                          !.log = Append(@, Ev("spawn_fg", cmd_index,
                                               final_command_exec_str, 0,
                                               shell_environment))]
            ELSE
                \* _run_powershell_command could not start the process:
                \* it yields an error line and the exit code -1
                FinishUnit(
                    [r EXCEPT !.log = Append(@, Ev("error", cmd_index, <<>>, 0,
                                                   "powershell_not_started"))],
                    -1)
    ELSE IF is_sim THEN standalone_simulation(r)
    ELSE
        LET sep == parsed_commands[cmd_index].sep IN
        Advance([r EXCEPT !.flag = AfterUnitFlag(sep, r.rc, r.flag)])

\* skipped_flag that stays set to the end of the line
skipped_flag_NoReset(separator, flag) == flag

\* a skipped segment: "Reset for ';'"
skipped_flag(separator, flag) == IF separator = SEMICOLON THEN FALSE ELSE flag

\* can_apply_alias for every segment
can_apply_alias_Always(index, prev_pipe) == TRUE

\* can_apply_alias: the first segment, or a segment whose previous
\* separator is not PIPE (index counts from 1)
can_apply_alias(index, prev_pipe) == index = 1 \/ ~prev_pipe

\* builtin_disallowed without the test of the number of segments
builtin_disallowed_PipedOnly(multi, separator, prev_pipe, cmd_lower) ==
    (separator = PIPE \/ prev_pipe) /\ cmd_lower \in builtins

\* "Check disallowed built-ins in complex sequences (pipes, &&, ;)"
builtin_disallowed(multi, separator, prev_pipe, cmd_lower) ==
    (multi \/ separator = PIPE \/ prev_pipe) /\ cmd_lower \in builtins

\* elevation_disallowed for background units only
elevation_disallowed_BackgroundOnly(multi, separator, prev_pipe) ==
    separator = BACKGROUND

\* "Check if elevation is allowed in this context"
elevation_disallowed(multi, separator, prev_pipe) ==
    multi \/ separator = BACKGROUND \/ prev_pipe \/ separator = PIPE

\* is_no_exec that takes no result as suppressed
is_no_exec_Never(result, is_sim) == FALSE

\* `elif translation_result.startswith(NO_EXEC_MARKER)`
is_no_exec(result, is_sim) ==
    result # NoneStr /\ ~is_sim /\ startswith(result, NO_EXEC_MARKER)

\* one pass through the loop body, up to the point where it blocks
SegmentResult(spawn_ok, pid) ==
    LET r == LoopState
        command_str == parsed_commands[cmd_index].text
        separator == parsed_commands[cmd_index].sep
        prev_pipe == cmd_index > 1 /\ parsed_commands[cmd_index - 1].sep = PIPE
        multi == Len(parsed_commands) > 1
    IN
    IF pipeline_failed_for_and THEN
        Advance([r EXCEPT !.flag = skipped_flag(separator, @),
                          !.log = Append(@, Ev("skip", cmd_index, <<>>, 0, <<>>))])
    ELSE
    LET processed_command_str ==
            IF can_apply_alias(cmd_index, prev_pipe)
            THEN alias_expand(aliases, command_str) ELSE command_str
        sp == shlex_split(processed_command_str)
    IN
    IF ~sp.ok THEN Break(r, "split_error")
    ELSE IF sp.parts = <<>> THEN Break(r, "empty_segment")
    ELSE
    LET command == sp.parts[1]
        args == Tail(sp.parts)
        cmd_lower == lower(command)
        r1 == [r EXCEPT !.originals = Append(@, processed_command_str)]
    IN
    IF builtin_disallowed(multi, separator, prev_pipe, cmd_lower)
    THEN Break(r1, "builtin_in_sequence")
    ELSE
    LET tr == process_command(command, args)
        r2 == [r1 EXCEPT !.elev = @ \/ tr.needs_elevation,
                         !.log = Append(@, Ev("translate", cmd_index,
                                              processed_command_str, 0, <<>>))]
        elevation_refused ==
            tr.needs_elevation /\ elevation_disallowed(multi, separator, prev_pipe)
        is_sim == tr.result # NoneStr /\ startswith(tr.result, SIMULATION_MARKER_PREFIX)
    IN
    IF elevation_refused THEN Break(r2, "elevation_disallowed")
    ELSE IF is_no_exec(tr.result, is_sim) THEN Break(r2, "suppressed")
    ELSE
    LET translated ==
            IF is_sim THEN r2.translated
            ELSE IF tr.result # NoneStr THEN Append(r2.translated, tr.result)
            ELSE Append(r2.translated, processed_command_str)
    IN
    IF separator # PIPE
    THEN Dispatch(r2, separator, translated, r2.originals, r2.elev, is_sim, spawn_ok, pid)
    ELSE Advance([r2 EXCEPT !.translated = translated])

Segment(spawn_ok, pid) ==
    /\ pc = "segment"
    /\ SetLoopState(SegmentResult(spawn_ok, pid))

\* the foreground process exits with exit_code
FgExit(exit_code) ==
    /\ pc = "fg"
    /\ SetLoopState(FinishUnit(LoopState, exit_code))

\* fg_interrupted with the status of a general error
fg_interrupted_GeneralError(r) ==
    FinishUnit([r EXCEPT !.log = Append(@, Ev("interrupt", cmd_index, <<>>, 0, <<>>))], 1)

\* `except KeyboardInterrupt`: a warning, `last_return_code = 130`
fg_interrupted(r) ==
    FinishUnit([r EXCEPT !.log = Append(@, Ev("interrupt", cmd_index, <<>>, 0, <<>>))], 130)

\* Ctrl+C while the foreground output is read
FgInterrupt ==
    /\ pc = "fg"
    /\ SetLoopState(fg_interrupted(LoopState))

\* the answers to "Attempt to run elevated? [y/N]"
Answers == {<<"y">>, <<"Y">>, <<"n">>, <<>>}

\* confirmed with the default answer taken as a yes
confirmed_UnlessNo(confirm) == lower(confirm) # <<"n">>

\* `confirm.lower() == 'y'`
confirmed(confirm) == lower(confirm) = <<"y">>

\* the answer to "Attempt to run elevated? [y/N]" and, for a yes, the
\* outcome of the Start-Process request
Confirm(confirm, returncode) ==
    /\ pc = "confirm"
    /\ LET r == [LoopState EXCEPT !.log = Append(@, Ev("answer", cmd_index, confirm,
                                                      0, <<>>))]
       IN
       IF confirmed(confirm)
       THEN SetLoopState(FinishUnit(
              [r EXCEPT !.log = Append(@, Ev("spawn_elev", cmd_index,
                                             pending.final_command_exec_str, 0,
                                             shell_environment))],
              returncode))
       ELSE SetLoopState(FinishUnit(r, 1))

\* Ctrl+C or Ctrl+D at "Attempt to run elevated? [y/N]": console.input
\* raises KeyboardInterrupt or EOFError, which no handler of run_shell
\* catches at that place
ConfirmInterrupt ==
    /\ pc = "confirm"
    /\ pc' = "raised"
    /\ last_iter' = IterSummary("confirm_interrupt", FALSE, <<>>)
    /\ UNCHANGED <<parsevars, envvars, linevars, jobvars, aliases, shellvars, log>>

\* ------------------------------------------------------------------------
\* Background processes and the check for completed jobs
\* ------------------------------------------------------------------------

\* a background process terminates (at any moment)
JobExit(job_id, exit_code) ==
    /\ pc \in {"prompt", "segment", "fg", "confirm", "poll"}
    /\ job_id \in DOMAIN background_jobs
    /\ ~background_jobs[job_id].exited
    /\ background_jobs' = [background_jobs EXCEPT ![job_id].exited = TRUE,
                                                  ![job_id].returncode = exit_code]
    /\ UNCHANGED <<parsevars, envvars, pc, linevars, next_job_id, allocated, reported,
                   aliases, shellvars, log, last_iter>>

\* completed_jobs_ids without the poll() test
completed_jobs_ids_All(jobs) == DOMAIN jobs

\* process_obj.poll() is not None
completed_jobs_ids(jobs) == {j \in DOMAIN jobs : jobs[j].exited}

\* "Check for completed background jobs", the end of the loop body
PollJobs ==
    /\ pc = "poll"
    /\ LET done == completed_jobs_ids(background_jobs) IN
       /\ background_jobs' = [j \in DOMAIN background_jobs \ done |-> background_jobs[j]]
       /\ reported' = [j \in DOMAIN reported \cup done |->
                         (IF j \in DOMAIN reported THEN reported[j] ELSE 0)
                         + (IF j \in done THEN 1 ELSE 0)]
    /\ pc' = "prompt"
    \* skip_left: the value of pipeline_failed_for_and that the line leaves
    /\ last_iter' = [IterSummary("pipeline", TRUE, <<>>)
                       EXCEPT !.skip_left = pipeline_failed_for_and]
    /\ log' = <<>>
    \* the values below are written again before the next iteration reads
    \* them (lines 263, 271 and 370-372); last_return_code and
    \* pipeline_failed_for_and keep their values until line 368-369
    /\ raw_input_line' = <<>>
    /\ parsed_commands' = <<>>
    /\ cmd_index' = 0
    /\ current_pipeline_segments_translated' = <<>>
    /\ current_pipeline_original_commands' = <<>>
    /\ needs_elevation_overall' = FALSE
    /\ pending' = NoPending
    /\ UNCHANGED <<parsevars, envvars, last_return_code, pipeline_failed_for_and,
                   next_job_id, allocated, aliases, shellvars>>

Next ==
    \/ \E l \in inputs, write_ok \in BOOLEAN : Prompt(l, write_ok)
    \/ PromptInterrupt
    \/ PromptEOF
    \/ \E spawn_ok \in BOOLEAN, pid \in Pids : Segment(spawn_ok, pid)
    \/ \E c \in ExitCodes : FgExit(c)
    \/ FgInterrupt
    \/ \E confirm \in Answers, c \in ExitCodes : Confirm(confirm, c)
    \/ ConfirmInterrupt
    \/ \E j \in 1..MaxJobs, c \in ExitCodes : JobExit(j, c)
    \/ PollJobs

Spec == Init /\ [][Next]_vars

\* ------------------------------------------------------------------------
\* Sessions about the aliases: the alias file is missing, or holds a
\* document, or has no path (APPDATA is not set)
\* ------------------------------------------------------------------------
AliasFiles ==
    { NoAliasFile,
      [available |-> TRUE, exists |-> TRUE, doc |-> [n \in {w_x} |-> w_ls]],
      [available |-> FALSE, exists |-> FALSE, doc |-> EmptyMap] }

InitAlias ==
    /\ pline = <<>>
    /\ presult = NoResult
    /\ stream = NoStream
    /\ inputs = LinesAlias
    /\ pc = "prompt"
    /\ alias_store \in AliasFiles
    /\ ShellStart

SpecAlias == InitAlias /\ [][Next]_vars

\* ------------------------------------------------------------------------
\* Sessions about cd, export, unset and the place of a built-in on the
\* line; the alias file binds x to help
\* ------------------------------------------------------------------------
HelpAliasFile == [available |-> TRUE, exists |-> TRUE, doc |-> [n \in {w_x} |-> w_help]]

InitEnv ==
    /\ pline = <<>>
    /\ presult = NoResult
    /\ stream = NoStream
    /\ inputs = LinesEnv
    /\ pc = "prompt"
    /\ alias_store = HelpAliasFile
    /\ ShellStart

SpecEnv == InitEnv /\ [][Next]_vars

\* ------------------------------------------------------------------------
\* Sessions about sequences: every chain of foo up to MaxSegs segments, and
\* lines whose segments are suppressed, simulated, elevated, or do not split
\* ------------------------------------------------------------------------
SequenceLines ==
    UNION {Chains({w_foo}, k) : k \in 1..MaxSegs}
    \cup { <<>>, <<SP>>, w_exit, w_quit,
           Words(<<w_df, a_T>>), Words(<<w_df, a_T, op_semi>>),
           Words(<<w_df, a_T, op_bg>>),
           Render(<<w_foo, Words(<<w_df, a_T>>)>>, <<op_semi>>),
           Render(<<w_passwd, w_foo>>, <<op_semi>>),
           Render(<<w_foo, w_passwd, w_foo>>, <<op_pipe, op_semi>>),
           Render(<<w_foo, w_passwd, w_foo>>, <<op_semi, op_semi>>),
           <<SQ>> \o w_foo,
           Render(<<w_foo, <<SQ>> \o w_foo>>, <<op_semi>>),
           Render(<<w_foo, <<SQ>> \o w_foo>>, <<op_pipe>>),
           WithBg(w_foo),
           WithBg(Render(<<w_foo, w_foo>>, <<op_semi>>)) }

InitSeq ==
    /\ pline = <<>>
    /\ presult = NoResult
    /\ stream = NoStream
    /\ inputs = SequenceLines
    /\ pc = "prompt"
    /\ alias_store = NoAliasFile
    /\ ShellStart

SpecSeq == InitSeq /\ [][Next]_vars

\* ------------------------------------------------------------------------
\* parse_command_line called on its own
\* ------------------------------------------------------------------------
ParseLines == BoundedSeq(Alphabet, MaxLineLen) \cup BoundedSeq(QuoteAlphabet, MaxQuoteLen)

InitParse ==
    /\ pline \in ParseLines
    /\ presult = NoResult
    /\ stream = NoStream
    /\ inputs = {}
    /\ pc = "off"
    /\ alias_store = NoAliasFile
    /\ ShellStart

CallParse ==
    /\ presult.status = "pending"
    /\ pc = "off"
    /\ presult' = parse_command_line(pline)
    /\ UNCHANGED <<pline, stream, envvars, pc, linevars, jobvars, aliases, shellvars, log,
                   last_iter>>

NextParse == CallParse

SpecParse == InitParse /\ [][NextParse]_vars

\* ------------------------------------------------------------------------
\* A foreground dispatch line by line: _run_powershell_command and the
\* loop of run_shell that reads it
\* ------------------------------------------------------------------------
MaxOut == 2
MaxErr == 2

\* the tuples of the generator: `yield line.strip(), False, None`,
\* `yield line.strip(), True, None`, `yield None, None, process.wait()`
\* and, after a failure, `yield "...", True, -1` and `yield None, None, -1`
\* (has_line: the first component is not None; has_code: the third is not)
OutputTuple(is_stderr) ==
    [has_line |-> TRUE, is_stderr |-> is_stderr, has_code |-> FALSE, code |-> 0]
ExitTuple(code) ==
    [has_line |-> FALSE, is_stderr |-> FALSE, has_code |-> TRUE, code |-> code]
FailureTuple ==
    [has_line |-> TRUE, is_stderr |-> TRUE, has_code |-> TRUE, code |-> -1]

\* the body of `for line_content, is_stderr_line, exit_code_from_stream in
\* output_generator`
consume(s, t) ==
    IF t.has_line
    THEN [s EXCEPT !.yielded = Append(@, t),
                   !.displayed = Append(@, t.is_stderr)]
    ELSE IF t.has_code
    THEN [s EXCEPT !.yielded = Append(@, t),
                   !.current_pipeline_return_code = t.code]
    ELSE [s EXCEPT !.yielded = Append(@, t)]

\* a foreground dispatch that records success whatever the stream gave
fg_status_Zero(current_pipeline_return_code) == 0

\* `last_return_code = current_pipeline_return_code`
fg_status(current_pipeline_return_code) == current_pipeline_return_code

\* "Regular foreground execution": `current_pipeline_return_code = -1`,
\* the generator is made; the process will write out lines on its output
\* and err lines on its error output
StreamBegin(out, err) ==
    /\ stream.at = "off"
    /\ stream' = [stream EXCEPT !.at = "popen", !.out_left = out, !.err_left = err,
                                !.current_pipeline_return_code = -1]
    /\ UNCHANGED <<pline, presult, envvars, pc, linevars, jobvars, aliases, shellvars,
                   log, last_iter>>

StreamStep(s) ==
    /\ stream' = s
    /\ UNCHANGED <<pline, presult, envvars, pc, linevars, jobvars, aliases, shellvars,
                   log, last_iter>>

\* subprocess.Popen: it returns, or raises FileNotFoundError or another
\* exception
Popen(outcome) ==
    /\ stream.at = "popen"
    /\ StreamStep([stream EXCEPT !.launch = outcome,
                                 !.at = IF outcome = "ok" THEN "stdout" ELSE "except"])

\* `for line in process.stdout: yield line.strip(), False, None`
ReadStdout ==
    /\ stream.at = "stdout"
    /\ IF stream.out_left > 0
       THEN StreamStep(consume([stream EXCEPT !.out_left = @ - 1], OutputTuple(FALSE)))
       ELSE StreamStep([stream EXCEPT !.at = "stderr"])

\* `for line in process.stderr: yield line.strip(), True, None`
ReadStderr ==
    /\ stream.at = "stderr"
    /\ IF stream.err_left > 0
       THEN StreamStep(consume([stream EXCEPT !.err_left = @ - 1], OutputTuple(TRUE)))
       ELSE StreamStep([stream EXCEPT !.at = "wait"])

\* `yield None, None, process.wait()`
Wait(exit_code) ==
    /\ stream.at = "wait"
    /\ StreamStep(consume([stream EXCEPT !.at = "end"], ExitTuple(exit_code)))

\* an exception while the output is read or the process is waited for
ReadRaises ==
    /\ stream.at \in {"stdout", "stderr", "wait"}
    /\ StreamStep([stream EXCEPT !.at = "except"])

\* `except FileNotFoundError` and `except Exception`: the message is
\* yielded as a line of the error output, with -1
YieldFailure ==
    /\ stream.at = "except"
    /\ StreamStep(consume([stream EXCEPT !.at = "except_code"], FailureTuple))

\* `yield None, None, -1`
YieldFailureCode ==
    /\ stream.at = "except_code"
    /\ StreamStep(consume([stream EXCEPT !.at = "end"], ExitTuple(-1)))

\* the generator is exhausted: `last_return_code = current_pipeline_return_code`
StreamEnd ==
    /\ stream.at = "end"
    /\ stream' = [stream EXCEPT !.at = "returned"]
    /\ last_return_code' = fg_status(stream.current_pipeline_return_code)
    /\ UNCHANGED <<pline, presult, envvars, pc, raw_input_line, parsed_commands,
                   cmd_index, pipeline_failed_for_and,
                   current_pipeline_segments_translated,
                   current_pipeline_original_commands, needs_elevation_overall,
                   pending, jobvars, aliases, shellvars, log, last_iter>>

\* Ctrl+C while the loop runs: `except KeyboardInterrupt`
StreamInterrupt ==
    /\ stream.at \in {"popen", "stdout", "stderr", "wait", "except", "except_code", "end"}
    /\ stream' = [stream EXCEPT !.at = "interrupted"]
    /\ last_return_code' = 130
    /\ UNCHANGED <<pline, presult, envvars, pc, raw_input_line, parsed_commands,
                   cmd_index, pipeline_failed_for_and,
                   current_pipeline_segments_translated,
                   current_pipeline_original_commands, needs_elevation_overall,
                   pending, jobvars, aliases, shellvars, log, last_iter>>

InitStream ==
    /\ pline = <<>>
    /\ presult = NoResult
    /\ stream = NoStream
    /\ inputs = {}
    /\ pc = "fg"
    /\ alias_store = NoAliasFile
    /\ ShellStart

NextStream ==
    \/ \E out \in 0..MaxOut, err \in 0..MaxErr : StreamBegin(out, err)
    \/ \E outcome \in {"ok", "FileNotFoundError", "Exception"} : Popen(outcome)
    \/ ReadStdout
    \/ ReadStderr
    \/ \E c \in ExitCodes : Wait(c)
    \/ ReadRaises
    \/ YieldFailure
    \/ YieldFailureCode
    \/ StreamEnd
    \/ StreamInterrupt

SpecStream == InitStream /\ [][NextStream]_vars

\* ------------------------------------------------------------------------
\* Vocabulary of the properties
\* ------------------------------------------------------------------------
Range(f) == {f[x] : x \in DOMAIN f}

LogHas(ev, idx) == \E n \in DOMAIN log : log[n].ev = ev /\ log[n].idx = idx

\* the exit statuses recorded for the unit that ends at segment idx
RcCodes(idx) == {log[n].code : n \in {m \in DOMAIN log : log[m].ev = "rc" /\ log[m].idx = idx}}

SpawnEvents == {"spawn_fg", "spawn_bg", "spawn_elev"}
StartFailures == {"powershell_not_started", "background_start_failed"}

\* the log entries that are a process start, successful or not
IsAttempt(e) ==
    \/ e.ev \in SpawnEvents
    \/ e.ev = "error" /\ e.aux \in StartFailures

\* a process was started, or its start was tried, for the unit ending at idx
Attempted(idx) == \E n \in DOMAIN log : log[n].idx = idx /\ IsAttempt(log[n])

\* the loop has finished its work on segment idx, or is blocked in it
Past(idx) ==
    \/ cmd_index > idx
    \/ cmd_index = idx /\ pc \in {"fg", "confirm", "poll"}

\* commands that translate to a runnable string without elevation
RunnableWords == {w_ls, w_foo}

AndPairs == {k \in 1..(Len(parsed_commands) - 1) : parsed_commands[k].sep = AND}
SemicolonPairs == {k \in 1..(Len(parsed_commands) - 1) : parsed_commands[k].sep = SEMICOLON}

\* quoting as a shell reads it: a quote character inside the other kind of
\* quotes is literal, and a backslash protects the character after it.
\* q is the open quote or "none"; ops tells whether an unprotected |, ; or &
\* occurred outside quotes.
RECURSIVE ShellQuoteScan(_, _, _, _)
ShellQuoteScan(line, i, q, ops) ==
    IF i > Len(line) THEN [q |-> q, ops |-> ops]
    ELSE
    LET c == line[i] IN
    IF c = BS THEN ShellQuoteScan(line, i + 2, q, ops)
    ELSE IF q = "none" THEN
        IF c \in {SQ, DQ} THEN ShellQuoteScan(line, i + 1, c, ops)
        ELSE ShellQuoteScan(line, i + 1, q, ops \/ c \in {"|", ";", "&"})
    ELSE ShellQuoteScan(line, i + 1, IF c = q THEN "none" ELSE q, ops)

UnbalancedQuotes(line) == ShellQuoteScan(line, 1, "none", FALSE).q # "none"
BalancedNoOperators(line) ==
    LET r == ShellQuoteScan(line, 1, "none", FALSE) IN r.q = "none" /\ ~r.ops

ParseDone == presult.status # "pending"

\* ------------------------------------------------------------------------
\* Properties
\* ------------------------------------------------------------------------

\* C1: in a line with `A && B`, B is translated and a process is started
\* for it only if the exit status recorded for A is 0; after a non-zero
\* status the skip flag is set and B is skipped; after status 0 B is not
\* skipped and, being a runnable command, has its process started.
C1_AndRunsIffZero ==
    \A k \in AndPairs :
        /\ (LogHas("translate", k + 1) \/ Attempted(k + 1)) => RcCodes(k) = {0}
        /\ (RcCodes(k) # {} /\ RcCodes(k) # {0}) =>
              /\ ~LogHas("translate", k + 1)
              /\ ~Attempted(k + 1)
              /\ (cmd_index = k + 1 => pipeline_failed_for_and)
              /\ (cmd_index > k + 1 => LogHas("skip", k + 1))
        /\ (RcCodes(k) = {0} /\ Past(k + 1)) =>
              /\ ~LogHas("skip", k + 1)
              /\ (parsed_commands[k + 1].text \in RunnableWords
                  /\ parsed_commands[k + 1].sep # PIPE) => Attempted(k + 1)

\* A && B has been processed to the end, A failed and B was skipped
C1_Witness ==
    /\ pc = "poll"
    /\ Len(parsed_commands) = 2
    /\ 1 \in AndPairs
    /\ 1 \in RcCodes(1)
    /\ LogHas("skip", 2)
    /\ pipeline_failed_for_and

\* C2: in a line with `A ; B`, once an exit status is recorded for A,
\* whatever it is, B is not skipped: the skip flag is clear when B is
\* reached and a runnable B has its process started.
C2_SemicolonAlwaysContinues ==
    \A k \in SemicolonPairs :
        RcCodes(k) # {} =>
            /\ ~LogHas("skip", k + 1)
            /\ (cmd_index = k + 1 /\ pc = "segment") => ~pipeline_failed_for_and
            /\ (Past(k + 1) /\ parsed_commands[k + 1].text \in RunnableWords
                /\ parsed_commands[k + 1].sep # PIPE) => Attempted(k + 1)

\* the pass-through command foo failed and the command after `;` was started
C2_Witness ==
    /\ Len(parsed_commands) = 2
    /\ 1 \in SemicolonPairs
    /\ parsed_commands[1].text = w_foo
    /\ 1 \in RcCodes(1)
    /\ LogHas("spawn_fg", 2)

\* C3 (as claimed): after the line `longrunning &`, a single command that
\* is not a built-in followed by a trailing &, job 1 has been registered.
C3_BackgroundSingleRegistersJob ==
    (last_iter.kind = "background_single" /\ last_iter.name # <<>>
     /\ lower(last_iter.name) \notin builtins)
        => allocated # <<>>

\* C4 (as claimed): the last element of the parse result carries
\* BACKGROUND or None.
C4_LastSeparator ==
    (ParseDone /\ presult.segments # <<>>) =>
        presult.segments[Len(presult.segments)].sep \in {BACKGROUND, None}

\* C5 (as claimed): a line whose quoting is unbalanced at the end of the
\* input makes parse_command_line fail with a syntax error.
C5_UnbalancedQuoteFails ==
    (ParseDone /\ UnbalancedQuotes(pline)) => presult.status = "SyntaxError"

\* C6 (as claimed, for lines that are not blank): a line with balanced
\* quoting and no operator character outside quotes parses to exactly one
\* segment, the trimmed line with separator None; with a bare trailing &
\* added it parses to one segment, the trimmed text before the &, with
\* separator BACKGROUND.
C6_SingleSegment ==
    ParseDone =>
        /\ (BalancedNoOperators(pline) /\ strip(pline) # <<>>) =>
              presult.segments = <<[text |-> strip(pline), sep |-> None]>>
        /\ LET t == rstrip(pline)
               body == SubSeq(t, 1, Len(t) - 1)
           IN (t # <<>> /\ t[Len(t)] = "&" /\ BalancedNoOperators(body)
               /\ strip(body) # <<>> /\ body[Len(body)] # BS) =>
                 presult.segments = <<[text |-> strip(body), sep |-> BACKGROUND]>>

\* the string a runnable word is translated to
ExpectedTranslation(w) == IF w = w_ls THEN ps_GetChildItem ELSE w

\* C7: a line A | B | C of three runnable commands is parsed into three
\* segments, the first two tagged PIPE, and is one pipeline unit: the only
\* process started for the line is one foreground process whose command is
\* the three translations joined in source order with " | ".
C7_ThreeStagePipeline ==
    \A a \in RunnableWords, b \in RunnableWords, c \in RunnableWords :
        raw_input_line = Render(<<a, b, c>>, <<op_pipe, op_pipe>>) =>
            /\ parsed_commands = << [text |-> a, sep |-> PIPE],
                                    [text |-> b, sep |-> PIPE],
                                    [text |-> c, sep |-> None] >>
            /\ \A n \in DOMAIN log :
                  IsAttempt(log[n]) =>
                      /\ log[n].idx = 3
                      /\ log[n].ev = "spawn_fg" =>
                            log[n].text = ExpectedTranslation(a) \o PipeJoiner
                                          \o ExpectedTranslation(b) \o PipeJoiner
                                          \o ExpectedTranslation(c)
                      /\ log[n].ev \in {"spawn_fg", "error"}
            /\ Cardinality({n \in DOMAIN log : IsAttempt(log[n])}) <= 1
            /\ pc = "poll" => Cardinality({n \in DOMAIN log : IsAttempt(log[n])}) = 1

\* ls | foo | foo has run as one process
C7_Witness ==
    /\ pc = "poll"
    /\ raw_input_line = Render(<<w_ls, w_foo, w_foo>>, <<op_pipe, op_pipe>>)
    /\ \E n \in DOMAIN log :
          /\ log[n].ev = "spawn_fg"
          /\ log[n].text = ps_GetChildItem \o PipeJoiner \o w_foo \o PipeJoiner \o w_foo
    /\ 0 \in RcCodes(3)

\* C8: job ids come from a counter that starts at 1 and only grows: the ids
\* handed out are strictly increasing, all below next_job_id, and the jobs
\* in the table carry ids that were handed out.
C8_JobIdsUnique ==
    /\ \A i \in DOMAIN allocated : \A j \in DOMAIN allocated :
          i < j => allocated[i] < allocated[j]
    /\ allocated # <<>> => allocated[1] = 1
    /\ \A i \in DOMAIN allocated : allocated[i] < next_job_id
    /\ DOMAIN background_jobs \subseteq Range(allocated)
    /\ next_job_id >= 1

\* a second job was started after the first one had been reaped
C8_Witness ==
    /\ Len(allocated) = 2
    /\ DOMAIN background_jobs = {2}
    /\ 1 \in DOMAIN reported

ReportedCount(j) == IF j \in DOMAIN reported THEN reported[j] ELSE 0

C9_Inv ==
    \A j \in Range(allocated) :
        /\ ReportedCount(j) <= 1
        /\ j \in DOMAIN background_jobs => ReportedCount(j) = 0
        /\ j \notin DOMAIN background_jobs => ReportedCount(j) = 1

C9_Step ==
    \A j \in DOMAIN background_jobs :
        /\ j \notin DOMAIN background_jobs' =>
              (pc = "poll" /\ background_jobs[j].exited)
        /\ (pc = "poll" /\ pc' # "poll" /\ background_jobs[j].exited) =>
              (j \notin DOMAIN background_jobs' /\ ReportedCount(j)' = 1)
        /\ ReportedCount(j)' # ReportedCount(j) => j \notin DOMAIN background_jobs'

\* C9: a job leaves the table only in the poll and only when its process
\* has terminated; the poll removes every terminated job it sees and
\* prints its completion line; a job is reported at most once, never while
\* it is in the table, and exactly once when it has left it.
C9_ReapedOnce == [](C9_Inv) /\ [][C9_Step]_vars

\* job 1 was reported and removed, a later poll has run, and the running
\* job 2 is still in the table
C9_Witness ==
    /\ pc = "prompt"
    /\ last_iter.polled
    /\ ReportedCount(1) = 1
    /\ 1 \notin DOMAIN background_jobs
    /\ 2 \in DOMAIN background_jobs
    /\ ~background_jobs[2].exited
    /\ lines_read = 3

\* the ways an iteration that read a line can end
LineKinds == {"blank", "no_segments", "background_single", "split_error",
              "builtin", "pipeline"}

\* C10 (as claimed): every loop iteration that read a line has run the
\* check for completed background jobs.
C10_PollEveryIteration ==
    last_iter.kind \in LineKinds => last_iter.polled

\* ------------------------------------------------------------------------
\* Vocabulary of the properties about segments and units
\* ------------------------------------------------------------------------

\* the text of segment k as the loop reads it: the alias substitution is
\* made unless the segment follows a pipe
ProcessedText(k) ==
    IF k = 1 \/ parsed_commands[k - 1].sep # PIPE
    THEN alias_expand(aliases, parsed_commands[k].text)
    ELSE parsed_commands[k].text

\* segment k splits into a command name and arguments
Splits(k) ==
    LET sp == shlex_split(ProcessedText(k)) IN sp.ok /\ sp.parts # <<>>

\* the command name of segment k, in lower case
CommandName(k) == lower(shlex_split(ProcessedText(k)).parts[1])

\* what the translator returns for segment k
TranslationOf(k) ==
    LET sp == shlex_split(ProcessedText(k))
    IN process_command(sp.parts[1], Tail(sp.parts))

\* the first and the last segment of the pipeline unit that holds segment k
RECURSIVE UnitStart(_)
UnitStart(k) ==
    IF k = 1 \/ parsed_commands[k - 1].sep # PIPE THEN k ELSE UnitStart(k - 1)

RECURSIVE UnitEnd(_)
UnitEnd(k) ==
    IF k = Len(parsed_commands) \/ parsed_commands[k].sep # PIPE THEN k ELSE UnitEnd(k + 1)

\* the loop has worked on segment k (it was not skipped)
Reached(k) ==
    \E n \in DOMAIN log : log[n].idx = k /\ log[n].ev \in {"translate", "error"}

\* the line was given up at segment k for the reason `what`
RejectedAt(k, what) ==
    /\ log # <<>>
    /\ log[Len(log)] = Ev("error", k, <<>>, 0, what)
    /\ pc = "poll"

IsSimulated(k) ==
    /\ Splits(k)
    /\ TranslationOf(k).result # NoneStr
    /\ startswith(TranslationOf(k).result, SIMULATION_MARKER_PREFIX)

\* C12 (as claimed): when a segment with a simulated translation stands in
\* a pipeline unit of several segments, or in a unit that is sent to the
\* background, no process is started for that unit.
C12_SimulatedNotInPipeline ==
    \A k \in 1..Len(parsed_commands) :
        (/\ IsSimulated(k)
         /\ \/ UnitStart(k) # UnitEnd(k)
            \/ parsed_commands[UnitEnd(k)].sep = BACKGROUND) =>
            ~Attempted(UnitEnd(k))

\* C13 (as claimed): a built-in is run by the single-command path only for
\* a line that parses to one segment whose separator is neither PIPE nor
\* BACKGROUND.
C13_BuiltinOnlyStandalone ==
    last_iter.kind = "builtin" =>
        LET p == parse_command_line(last_iter.line).segments
        IN Len(p) = 1 /\ p[1].sep \notin {PIPE, BACKGROUND}

\* C14: in a line of several segments, a segment that the loop works on and
\* whose command name (after the alias substitution the loop makes, in lower
\* case) is a built-in makes the loop give the line up with an error at that
\* segment: nothing is translated or started for that segment or a later
\* one, so the unit that holds it and the units after it do not run, and the
\* built-in has no effect: the loop is not left by an exception.
C14_BuiltinInSequenceRejected ==
    \A k \in 1..Len(parsed_commands) :
        (/\ Len(parsed_commands) > 1
         /\ Reached(k)
         /\ Splits(k)
         /\ CommandName(k) \in builtins) =>
            /\ RejectedAt(k, "builtin_in_sequence")
            /\ \A n \in DOMAIN log :
                  log[n].idx >= k => log[n] = Ev("error", k, <<>>, 0, "builtin_in_sequence")
            /\ ~Attempted(UnitEnd(k))

\* foo ; x, with x an alias of help, has run foo and was given up at x
C14_Witness ==
    /\ raw_input_line = Render(<<w_foo, w_x>>, <<op_semi>>)
    /\ w_x \in DOMAIN aliases /\ aliases[w_x] = w_help
    /\ RejectedAt(2, "builtin_in_sequence")
    /\ LogHas("spawn_fg", 1)

\* ------------------------------------------------------------------------
\* Aliases
\* ------------------------------------------------------------------------

\* the translate events of the line at hand
Translations == {n \in DOMAIN log : log[n].ev = "translate"}

\* C15 (as claimed): a segment after the first of the line is read as it was
\* typed, whatever separator stands before it: no alias replaces its first
\* token.
C15_AliasFirstSegmentOnly ==
    \A n \in Translations :
        log[n].idx > 1 => log[n].text = parsed_commands[log[n].idx].text

\* C15 (amended): a segment that follows a pipe is read as it was typed; a
\* segment read otherwise than typed is the first of the line or follows
\* `&&` or `;`.
C15_AliasNotAfterPipe ==
    \A n \in Translations :
        LET k == log[n].idx IN
        /\ (k > 1 /\ parsed_commands[k - 1].sep = PIPE) =>
              log[n].text = parsed_commands[k].text
        /\ log[n].text # parsed_commands[k].text => UnitStart(k) = k

\* foo | x, while x is an alias: the second segment is read as x
C15_Witness ==
    /\ raw_input_line = Render(<<w_foo, w_x>>, <<op_pipe>>)
    /\ w_x \in DOMAIN aliases
    /\ \E n \in Translations : log[n].idx = 2 /\ log[n].text = w_x

\* the answer to the query `alias name` typed last matches what was typed
\* for that name before, and a name whose alias was removed is read as typed
AliasRoundTrip ==
    /\ (pc = "prompt" /\ typed.asked # NoName /\ typed.asked \in DOMAIN typed.bound) =>
          LET n == typed.asked IN
          /\ last_iter.kind = "builtin"
          /\ last_iter.arg = n
          /\ IF typed.bound[n] = Removed
             THEN last_iter.msg = "alias_not_found"
             ELSE last_iter.msg = "alias_shown" /\ last_iter.value = typed.bound[n]
    /\ \A n \in DOMAIN typed.bound :
          (raw_input_line = n /\ typed.bound[n] = Removed) =>
              \A e \in Translations : log[e].text = n

\* C16 (as claimed): after `alias x=cmd` the query `alias x` shows x bound
\* to cmd; after `unalias x` the query reports that x is not found and a
\* line x is read without alias substitution.
C16_AliasRoundTrip == AliasRoundTrip

\* C16 (amended): the same, as long as none of these lines was typed while
\* its own first word (alias, unalias) was the name of an alias.
C16_AliasRoundTripUnshadowed == ~typed.shadowed => AliasRoundTrip

\* alias x=..., unalias x, alias x: the third line reports x as not found
C16_Witness ==
    /\ pc = "prompt"
    /\ lines_read = 3
    /\ ~typed.shadowed
    /\ typed.asked = w_x
    /\ w_x \in DOMAIN typed.bound /\ typed.bound[w_x] = Removed
    /\ last_iter.line = AliasQueryLine(w_x)
    /\ last_iter.msg = "alias_not_found"
    /\ alias_store.exists /\ w_x \notin DOMAIN alias_store.doc

\* the messages of a built-in that has changed the alias map
AliasMutations == {"alias_set", "alias_removed"}

BuiltinStep(name) ==
    /\ pc = "prompt" /\ pc' = "prompt" /\ lines_read' # lines_read
    /\ last_iter'.kind = "builtin"
    /\ last_iter'.name = name

\* C18 (as claimed): export and unset leave the environment of the process
\* itself as it is, and each process that is started is given the session's
\* environment map.
C18_ProcessEnvironmentUntouched ==
    /\ [][ (BuiltinStep(w_export) \/ BuiltinStep(w_unset)) =>
              process_environment' = process_environment ]_vars
    /\ [](\A n \in DOMAIN log :
              log[n].ev \in {"spawn_fg", "spawn_bg", "spawn_elev"} =>
                  log[n].aux = shell_environment)

\* the arguments of the built-in that was run last
LastArgs == Tail(shlex_split(last_iter.line).parts)

\* C19 (as claimed): export NAME=VALUE sets NAME; export alone lists the
\* variables and export NAME shows NAME when it is set, both without error.
C19_ExportForms ==
    (last_iter.kind = "builtin" /\ last_iter.name = w_export) =>
        IF LastArgs = <<>>
        THEN last_iter.rc = 0 /\ last_iter.out # "display_error"
        ELSE IF has_eq(LastArgs[1])
        THEN /\ last_iter.rc = 0
             /\ split_eq(LastArgs[1]).name \in DOMAIN shell_environment
        ELSE LastArgs[1] \in DOMAIN shell_environment =>
                last_iter.rc = 0 /\ last_iter.out # "display_error"

\* the messages of a cd that has failed
CdErrors == {"cd_no_such_file_or_directory", "cd_failed"}

\* C20 (as claimed): a cd that fails reports an error, leaves the working
\* directory and the environment map as they are, hands over to the next
\* prompt, and leaves the last exit code non-zero.
C20_CdFailure ==
    [][ (BuiltinStep(w_cd) /\ last_iter'.msg \in CdErrors) =>
            /\ last_iter'.out = "display_error"
            /\ cwd' = cwd
            /\ shell_environment' = shell_environment
            /\ last_return_code' # 0 ]_vars

\* ------------------------------------------------------------------------
\* The end of the session, interrupts and errors
\* ------------------------------------------------------------------------

\* C21 (as claimed): after exit or quit run_shell has returned: it was not
\* left by an exception, and no line is read afterwards.
C21_ExitReturns ==
    (last_iter.kind = "builtin" /\ last_iter.name \in {w_exit, w_quit}) =>
        pc = "returned"

\* the entries this step appends to the log
NewEntries == SubSeq(log', Len(log) + 1, Len(log'))

\* this step is the interrupt of the foreground process
InterruptStep ==
    /\ pc = "fg"
    /\ Len(log') > Len(log)
    /\ log'[Len(log) + 1].ev = "interrupt"

\* C22: an interrupt of the foreground process ends the dispatch with the
\* status 130 recorded for the unit; the loop goes on with the next segment
\* or the end of the line, and the job table is left as it is.
C22_InterruptRecords130 ==
    [][ InterruptStep =>
            /\ NewEntries = <<Ev("interrupt", cmd_index, <<>>, 0, <<>>),
                              Ev("rc", cmd_index, <<>>, 130, <<>>)>>
            /\ last_return_code' = 130
            /\ pending' = NoPending
            /\ pc' \in {"segment", "poll"}
            /\ background_jobs' = background_jobs
            /\ next_job_id' = next_job_id ]_vars

\* foo was interrupted while job 1, started by the line before, is in the
\* table
C22_Witness ==
    /\ pc = "poll"
    /\ raw_input_line = w_foo
    /\ LogHas("interrupt", 1)
    /\ last_return_code = 130
    /\ 1 \in DOMAIN background_jobs
    /\ lines_read = 2

IsSuppressed(k) ==
    /\ Splits(k)
    /\ TranslationOf(k).result # NoneStr
    /\ ~IsSimulated(k)
    /\ startswith(TranslationOf(k).result, NO_EXEC_MARKER)

\* C24: when a segment has been translated and its translation is
\* suppressed, the loop gives the line up at that segment: no process is
\* started or tried for the unit that holds it, and nothing at all is done
\* for a later segment, whatever separator follows.
C24_SuppressedAbortsLine ==
    \A k \in 1..Len(parsed_commands) :
        (LogHas("translate", k) /\ IsSuppressed(k)) =>
            /\ RejectedAt(k, "suppressed")
            /\ cmd_index = k
            /\ \A n \in DOMAIN log : log[n].idx <= k
            /\ \A j \in UnitStart(k)..UnitEnd(k) : ~Attempted(j)

\* foo | passwd ; foo was given up at passwd: the first foo was translated
\* and nothing was started
C24_Witness ==
    /\ raw_input_line = Render(<<w_foo, w_passwd, w_foo>>, <<op_pipe, op_semi>>)
    /\ RejectedAt(2, "suppressed")
    /\ LogHas("translate", 1)
    /\ \A n \in DOMAIN log : ~IsAttempt(log[n])

\* the line read by this step
LineRead == IF pc' = "segment" THEN raw_input_line' ELSE last_iter'.line

\* C25: the step that reads a line of whitespace only, or an empty line,
\* ends at the prompt again: the line is not appended to the history, no
\* segment is parsed or translated, no process is started and nothing is
\* shown.
C25_BlankLineReprompts ==
    [][ (lines_read' # lines_read /\ strip(LineRead) = <<>>) =>
            /\ history_added' = history_added
            /\ pc' = "prompt"
            /\ log' = <<>>
            /\ last_iter'.kind = "blank" /\ last_iter'.out = "none"
            /\ last_iter'.msg = "none"
            /\ UNCHANGED <<linevars, jobvars, aliases, shellvars>> ]_vars

\* a blank was entered after foo: one line is in the history
C25_Witness ==
    /\ pc = "prompt"
    /\ last_iter.kind = "blank" /\ last_iter.line = <<SP>>
    /\ lines_read = 2
    /\ history_added = 1

\* ------------------------------------------------------------------------
\* Sequencing
\* ------------------------------------------------------------------------

\* the first segment after k that ends in `;`, or the last segment of the
\* line
RECURSIVE NextSemicolon(_)
NextSemicolon(k) ==
    IF k >= Len(parsed_commands) THEN Len(parsed_commands)
    ELSE IF parsed_commands[k + 1].sep = SEMICOLON THEN k + 1
    ELSE NextSemicolon(k + 1)

\* the unit that ends at segment k is followed by && and has recorded a
\* non-zero exit status
FailedBeforeAnd(k) ==
    /\ parsed_commands[k].sep = AND
    /\ \E c \in RcCodes(k) : c # 0

\* C26: once a unit followed by && has recorded a non-zero status, the
\* segments after it, up to and including the next one that ends in `;`
\* (or to the end of the line), are skipped: they are not translated and no
\* process is started for them; the segment after that `;` is worked on
\* again.
C26_SkipUntilSemicolon ==
    \A k \in 1..Len(parsed_commands) :
        FailedBeforeAnd(k) =>
            LET m == NextSemicolon(k) IN
            /\ \A j \in (k + 1)..m :
                  /\ ~Reached(j)
                  /\ ~Attempted(j)
                  /\ Past(j) => LogHas("skip", j)
            /\ (m < Len(parsed_commands) /\ Past(m + 1)) =>
                  Reached(m + 1) /\ ~LogHas("skip", m + 1)

\* foo && foo ; foo: the first foo failed, the second was skipped and the
\* third was started
C26_Witness ==
    /\ raw_input_line = Render(<<w_foo, w_foo, w_foo>>, <<op_and, op_semi>>)
    /\ FailedBeforeAnd(1)
    /\ LogHas("skip", 2)
    /\ LogHas("spawn_fg", 3)

\* ------------------------------------------------------------------------
\* Dispatch
\* ------------------------------------------------------------------------

\* the places of the log where the answer to the confirmation stands
AnswersGiven == {n \in DOMAIN log : log[n].ev = "answer"}

Attempts == {n \in DOMAIN log : IsAttempt(log[n])}

C29_SplitErrorRunsNothing ==
    (\E n \in DOMAIN log : log[n].ev = "error" /\ log[n].aux = "split_error") =>
        \A n \in DOMAIN log : ~IsAttempt(log[n])

\* this step is a background dispatch whose process has started
BackgroundStarted ==
    \E n \in DOMAIN NewEntries : NewEntries[n].ev = "spawn_bg"

\* this step is a background dispatch whose process could not be started
BackgroundFailed ==
    \E n \in DOMAIN NewEntries :
        NewEntries[n].ev = "error" /\ NewEntries[n].aux = "background_start_failed"

\* C30: a background dispatch that starts its process adds one job under
\* the value of the counter, leaves the other jobs alone, adds one to the
\* counter, prints the job line and records the status 0 without waiting;
\* one that cannot start its process leaves the job table and the counter
\* as they are and records the status 1.
C30_BackgroundDispatch ==
    [][ /\ BackgroundStarted =>
            /\ next_job_id \notin DOMAIN background_jobs
            /\ DOMAIN background_jobs' = DOMAIN background_jobs \cup {next_job_id}
            /\ \A j \in DOMAIN background_jobs : background_jobs'[j] = background_jobs[j]
            /\ ~background_jobs'[next_job_id].exited
            /\ next_job_id' = next_job_id + 1
            /\ \E n \in DOMAIN NewEntries, p \in Pids :
                  NewEntries[n] = Ev("job_started", cmd_index,
                                     background_jobs'[next_job_id].cmd, next_job_id, p)
            /\ NewEntries[Len(NewEntries)] = Ev("rc", cmd_index, <<>>, 0, <<>>)
            /\ last_return_code' = 0
            /\ pc' = "poll"
        /\ BackgroundFailed =>
            /\ background_jobs' = background_jobs
            /\ next_job_id' = next_job_id
            /\ NewEntries[Len(NewEntries)] = Ev("rc", cmd_index, <<>>, 1, <<>>)
            /\ last_return_code' = 1
            /\ pc' = "poll" ]_vars

\* foo ; foo &, entered twice: the second job has the id 2 and the counter
\* is 3
C30_Witness ==
    /\ pc = "poll"
    /\ lines_read = 2
    /\ \E n \in DOMAIN log, p \in Pids : log[n] = Ev("job_started", 2, w_foo, 2, p)
    /\ log[Len(log)] = Ev("rc", 2, <<>>, 0, <<>>)
    /\ 2 \in DOMAIN background_jobs
    /\ next_job_id = 3
    /\ last_return_code = 0

\* ------------------------------------------------------------------------
\* Simulated units, foreground dispatch
\* ------------------------------------------------------------------------

\* segment k ends a pipeline unit all of whose segments are simulations, so
\* that the unit has no command text to run
SimulatedUnit(k) ==
    /\ parsed_commands[k].sep # PIPE
    /\ \A j \in UnitStart(k)..k : IsSimulated(j)

\* C31: when the loop has worked on the last segment of a pipeline unit,
\* that segment is a simulation and the unit has no command text to run,
\* no process is started or tried for the unit and the exit status recorded
\* for it is 0; the segment after a following && is then not skipped, and
\* if it is a runnable command that ends a unit its process is started.
C31_SimulatedUnitSucceeds ==
    \A k \in 1..Len(parsed_commands) :
        (SimulatedUnit(k) /\ Reached(k) /\ Past(k)) =>
            /\ ~Attempted(k)
            /\ \A n \in DOMAIN log : log[n].idx = k => log[n].ev \in {"translate", "rc"}
            /\ RcCodes(k) = {0}
            /\ (cmd_index = k + 1 \/ (pc = "poll" /\ cmd_index = k)) => last_return_code = 0
            /\ (k < Len(parsed_commands) /\ parsed_commands[k].sep = AND) =>
                  /\ ~LogHas("skip", k + 1)
                  /\ (cmd_index = k + 1 /\ pc = "segment") => ~pipeline_failed_for_and
                  /\ (Past(k + 1) /\ parsed_commands[k + 1].text \in RunnableWords
                      /\ parsed_commands[k + 1].sep # PIPE) => Attempted(k + 1)

\* neofetch && foo: nothing was started for neofetch, its status is 0 and
\* foo was started
C31_Witness ==
    /\ raw_input_line = w_neofetch \o <<SP>> \o op_and \o <<SP>> \o w_foo
    /\ Len(parsed_commands) = 2
    /\ SimulatedUnit(1)
    /\ ~Attempted(1)
    /\ RcCodes(1) = {0}
    /\ LogHas("spawn_fg", 2)

\* the places of the exit code in the tuples handed to the loop: the tuples
\* whose first component is None
ExitCodePlaces == {n \in DOMAIN stream.yielded : ~stream.yielded[n].has_line}

\* the tags of the output lines handed to the loop, in order
RECURSIVE LineTags(_)
LineTags(y) ==
    IF y = <<>> THEN <<>>
    ELSE LET rest == LineTags(SubSeq(y, 1, Len(y) - 1))
             t == y[Len(y)]
         IN IF t.has_line THEN Append(rest, t.is_stderr) ELSE rest

\* C32: in a foreground dispatch the exit code is handed to the loop at
\* most once and no output line is handed over after it; every output line
\* is tagged as output or error output and is displayed with its tag, in
\* order. When the dispatch ends without an interrupt the exit code has
\* been handed over exactly once, after every line the process wrote
\* (unless the reading failed), and the status recorded for the unit is
\* that exit code; it is -1 when the process could not be started.
C32_ForegroundStream ==
    /\ Cardinality(ExitCodePlaces) <= 1
    /\ \A n \in ExitCodePlaces : n = Len(stream.yielded) /\ stream.yielded[n].has_code
    /\ stream.displayed = LineTags(stream.yielded)
    /\ stream.at = "returned" =>
          /\ Cardinality(ExitCodePlaces) = 1
          /\ last_return_code = stream.yielded[Len(stream.yielded)].code
          /\ stream.launch # "ok" => last_return_code = -1
          /\ last_return_code # -1 => stream.out_left = 0 /\ stream.err_left = 0

\* a process wrote a line on each of its outputs and exited with 1
C32_Witness ==
    /\ stream.at = "returned"
    /\ stream.launch = "ok"
    /\ stream.displayed = <<FALSE, TRUE>>
    /\ Len(stream.yielded) = 3
    /\ last_return_code = 1

\* ------------------------------------------------------------------------
\* parse_command_line: segments, the single &, backslash, quotes
\* ------------------------------------------------------------------------

\* the pieces of a line between the characters of ops, in order
RECURSIVE Pieces(_, _, _)
Pieces(line, ops, piece) ==
    IF line = <<>> THEN <<piece>>
    ELSE IF Head(line) \in ops THEN <<piece>> \o Pieces(Tail(line), ops, <<>>)
    ELSE Pieces(Tail(line), ops, Append(piece, Head(line)))

\* the texts of the segments of a parse result, in order
Texts(segments) == [k \in DOMAIN segments |-> segments[k].text]

StripAll(pieces) == [k \in DOMAIN pieces |-> strip(pieces[k])]

\* a line made of ordinary characters, blanks, | and ; only
PlainLine(line) == \A k \in DOMAIN line : line[k] \in {"a", SP, "|", ";"}

\* C33: parse_command_line returns without an error for every line, and
\* every segment it returns has a text that is not empty and has no
\* whitespace at its start or end. For a line of ordinary characters,
\* blanks, | and ;, the segments are the trimmed pieces between the
\* operators that are not empty, in order: an empty piece is left out.
C33_SegmentsTrimmedNonEmpty ==
    ParseDone =>
        /\ presult.status = "ok"
        /\ \A k \in DOMAIN presult.segments :
              LET text == presult.segments[k].text IN
              /\ text # <<>>
              /\ ~isspace(text[1])
              /\ ~isspace(text[Len(text)])
        /\ PlainLine(pline) =>
              Texts(presult.segments) =
                  SelectSeq(StripAll(Pieces(pline, {"|", ";"}, <<>>)),
                            LAMBDA t : t # <<>>)

\* `a;;a` is parsed to the two segments a and a
C33_Witness ==
    /\ ParseDone
    /\ pline = <<"a", ";", ";", "a">>
    /\ presult.segments = <<[text |-> <<"a">>, sep |-> SEMICOLON],
                            [text |-> <<"a">>, sep |-> None]>>

\* a line without quote characters and backslashes
NoQuoting(line) == \A k \in DOMAIN line : line[k] \notin {SQ, DQ, BS}

\* the & characters of a line without quoting, read from the left: two in
\* a row are an AND; a single one after which only whitespace follows ends
\* the line as BACKGROUND; every other one is literal
RECURSIVE AmpersandScan(_, _, _)
AmpersandScan(line, i, acc) ==
    IF i > Len(line) THEN acc
    ELSE IF line[i] # "&" THEN AmpersandScan(line, i + 1, acc)
    ELSE IF i < Len(line) /\ line[i + 1] = "&"
         THEN AmpersandScan(line, i + 2, [acc EXCEPT !.ands = @ + 1])
    ELSE IF \A j \in (i + 1)..Len(line) : line[j] = SP
         THEN [acc EXCEPT !.background = TRUE]
    ELSE AmpersandScan(line, i + 1, [acc EXCEPT !.literal = @ + 1])

Ampersands(line) ==
    AmpersandScan(line, 1, [ands |-> 0, literal |-> 0, background |-> FALSE])

\* the number of times c occurs in s
RECURSIVE CountChar(_, _)
CountChar(s, c) ==
    IF s = <<>> THEN 0
    ELSE (IF Head(s) = c THEN 1 ELSE 0) + CountChar(Tail(s), c)

\* C34: in a parse result BACKGROUND stands on the last element only, so
\* at most once, and only when the last character of the line that is not
\* whitespace is a &. For a line without quotes and backslashes: reading
\* from the left, `&&` is an AND; a single & is BACKGROUND only when
\* nothing but whitespace follows it, and every other single & is a
\* character of a segment text.
C34_SingleAmpersand ==
    ParseDone =>
        LET segs == presult.segments
            t == rstrip(pline)
            a == Ampersands(pline)
        IN
        /\ \A k \in DOMAIN segs : segs[k].sep = BACKGROUND => k = Len(segs)
        /\ HasBackground(segs) => (t # <<>> /\ t[Len(t)] = "&")
        /\ NoQuoting(pline) =>
              /\ CountChar(Concat(Texts(segs)), "&") = a.literal
              /\ HasBackground(segs) => a.background
              /\ Cardinality({k \in DOMAIN segs : segs[k].sep = AND}) <= a.ands
              /\ (Len(pline) >= 3 /\ SubSeq(pline, 1, 3) = <<"a", "&", "&">>) =>
                    (segs # <<>> /\ segs[1] = [text |-> <<"a">>, sep |-> AND])

\* `a&a&`: the first & is a character of the text, the second is BACKGROUND
C34_Witness ==
    /\ ParseDone
    /\ pline = <<"a", "&", "a", "&">>
    /\ presult.segments = <<[text |-> <<"a", "&", "a">>, sep |-> BACKGROUND]>>

\* the characters that the parser gives a meaning to
OperatorChars == {"|", ";", "&"}
QuoteChars == {SQ, DQ}

\* the backslash at position i is not itself protected by a backslash: the
\* number of backslashes right before it is even
RECURSIVE BackslashesBefore(_, _)
BackslashesBefore(line, i) ==
    IF i > 1 /\ line[i - 1] = BS THEN 1 + BackslashesBefore(line, i - 1) ELSE 0

UnescapedBackslash(line, i) == line[i] = BS /\ BackslashesBefore(line, i) % 2 = 0

\* the places of a line where an unescaped backslash stands before an
\* operator or quote character
EscapePlaces(line) ==
    {i \in 1..(Len(line) - 1) :
        UnescapedBackslash(line, i) /\ line[i + 1] \in OperatorChars \cup QuoteChars}

\* the line with the two characters at i and i + 1 replaced by one
\* ordinary character
Plain(line, i) == SubSeq(line, 1, i - 1) \o <<"a">> \o SubSeq(line, i + 2, Len(line))

\* segs is segs2 with one ordinary character of one text replaced by the
\* backslash and the character c
SameButEscape(segs, segs2, c) ==
    /\ Len(segs) = Len(segs2)
    /\ \A k \in DOMAIN segs : segs[k].sep = segs2[k].sep
    /\ \E k \in DOMAIN segs :
          /\ \A j \in DOMAIN segs : j # k => segs[j] = segs2[j]
          /\ \E p \in DOMAIN segs2[k].text :
                LET t2 == segs2[k].text IN
                /\ t2[p] = "a"
                /\ segs[k].text = SubSeq(t2, 1, p - 1) \o <<BS, c>> \o SubSeq(t2, p + 1, Len(t2))

\* C35: where an unescaped backslash stands before a |, ;, &, ' or ", the
\* line is parsed as the line that has one ordinary character in place of
\* the two: the same number of segments, the same separators and the same
\* quote modes at the end, and the same texts but for the backslash and
\* the character after it standing where the ordinary character stands.
\* So the character after the backslash splits nothing and toggles no
\* quote mode, and the characters after it are read as they are after an
\* ordinary character.
C35_BackslashEscapesNext ==
    ParseDone =>
        \A i \in EscapePlaces(pline) :
            LET r2 == parse_command_line(Plain(pline, i)) IN
            /\ SameButEscape(presult.segments, r2.segments, pline[i + 1])
            /\ presult.in_single_quotes = r2.in_single_quotes
            /\ presult.in_double_quotes = r2.in_double_quotes

\* `\||a`: the first | is a character of the first text, the second is a pipe
C35_Witness ==
    /\ ParseDone
    /\ pline = <<BS, "|", "|", "a">>
    /\ EscapePlaces(pline) = {1}
    /\ presult.segments = <<[text |-> <<BS, "|">>, sep |-> PIPE],
                            [text |-> <<"a">>, sep |-> None]>>

\* the line has a |, ; or & and every one of them stands between a quote
\* and the quote that closes it, as a shell reads the quotes; no backslash
OperatorsOnlyInQuotes(line) ==
    /\ \E k \in DOMAIN line : line[k] \in OperatorChars
    /\ \A k \in DOMAIN line : line[k] # BS
    /\ BalancedNoOperators(line)

\* C36 (as claimed): a line whose only |, ; and & characters lie between a
\* matching pair of quotes is parsed to a single segment, and these
\* characters are characters of its text: the segment is the trimmed line.
C36_QuotedOperatorsAreText ==
    (ParseDone /\ OperatorsOnlyInQuotes(pline)) =>
        /\ Len(presult.segments) = 1
        /\ presult.segments[1].text = strip(pline)
        /\ presult.segments[1].sep = None

\* ------------------------------------------------------------------------
\* The end of a line, the start of the next one, the trailing &
\* ------------------------------------------------------------------------

\* the loop gave the line up with an error message
Aborted ==
    \E n \in DOMAIN log : log[n].ev = "error" /\ log[n].aux \notin StartFailures

\* the process starts, tried or done, of the unit that ends at segment idx
AttemptsAt(idx) == {n \in DOMAIN log : log[n].idx = idx /\ IsAttempt(log[n])}

\* segment k was translated to a command to run, without elevation
TranslatedRunnable(k) ==
    /\ LogHas("translate", k)
    /\ ~IsSimulated(k)
    /\ ~TranslationOf(k).needs_elevation

\* C37 (as claimed): when the work on a line has ended and the line was
\* not given up with an error, every segment that was translated to a
\* command to run belongs to a unit for which exactly one process start
\* has been made; this includes a line that ends in a pipe, as `ls |`.
C37_TranslatedSegmentsRun ==
    (pc = "poll" /\ ~Aborted) =>
        \A k \in 1..Len(parsed_commands) :
            TranslatedRunnable(k) => Cardinality(AttemptsAt(UnitEnd(k))) = 1

\* the skip of segment k has its cause on the line at hand: a unit before
\* it that is followed by && and has recorded a non-zero status, with no
\* `;` between the two
SkipCausedOnLine(k) ==
    \E j \in 1..(k - 1) :
        /\ FailedBeforeAnd(j)
        /\ \A m \in j..(k - 1) : parsed_commands[m].sep # SEMICOLON

\* C38: when the loop is about to work on the first segment of a line the
\* skip flag is clear and the recorded exit status is 0, whatever the line
\* before has left; a segment is skipped only because a unit before it on
\* the same line, followed by &&, has recorded a non-zero status: the
\* first segment of a line is never skipped.
C38_LineStartsClean ==
    /\ (pc = "segment" /\ cmd_index = 1) =>
          /\ ~pipeline_failed_for_and
          /\ last_return_code = 0
    /\ \A k \in 1..Len(parsed_commands) :
          LogHas("skip", k) => SkipCausedOnLine(k)
    /\ ~LogHas("skip", 1)

\* the line before has left the skip flag set, and of the line foo && foo
\* both units were started
C38_Witness ==
    /\ last_iter.kind = "pipeline"
    /\ last_iter.skip_left
    /\ raw_input_line = Render(<<w_foo, w_foo>>, <<op_and>>)
    /\ LogHas("spawn_fg", 1)
    /\ RcCodes(1) = {0}
    /\ LogHas("spawn_fg", 2)

\* the log entries of a background dispatch, successful or not
IsBackgroundEntry(e) ==
    \/ e.ev \in {"spawn_bg", "job_started"}
    \/ e.ev = "error" /\ e.aux = "background_start_failed"

JobsStarted == {m \in DOMAIN log : log[m].ev = "job_started"}

\* C39: a background dispatch is made, and a job registered, only for the
\* unit that ends at the last segment of a line whose last separator is
\* BACKGROUND; a line registers at most one job. On such a line every
\* process start for a unit before the last one is a foreground start, and
\* the loop works on the segments after that unit only after the exit
\* status of the unit has been recorded.
C39_OnlyLastUnitInBackground ==
    LET n == Len(parsed_commands) IN
    /\ \A m \in DOMAIN log :
          IsBackgroundEntry(log[m]) =>
              (log[m].idx = n /\ parsed_commands[n].sep = BACKGROUND)
    /\ Cardinality(JobsStarted) <= 1
    /\ Len(allocated) <= lines_read
    /\ (n >= 1 /\ parsed_commands[n].sep = BACKGROUND) =>
          \A k \in 1..(UnitStart(n) - 1) :
              /\ \A m \in AttemptsAt(k) :
                    \/ log[m].ev = "spawn_fg"
                    \/ log[m].aux = "powershell_not_started"
              /\ (LogHas("spawn_fg", k) /\ cmd_index > k) => RcCodes(k) # {}
              /\ \A m1, m2 \in DOMAIN log :
                    (log[m1].idx = k /\ log[m2].idx > k) => m1 < m2

\* foo ; foo &: the first foo ran in the foreground and its status was
\* recorded, then the second was started in the background as a job
C39_Witness ==
    /\ raw_input_line = WithBg(Render(<<w_foo, w_foo>>, <<op_semi>>))
    /\ pc = "poll"
    /\ LogHas("spawn_fg", 1)
    /\ RcCodes(1) # {}
    /\ ~LogHas("spawn_bg", 1)
    /\ LogHas("spawn_bg", 2)
    /\ Cardinality(JobsStarted) = 1

====
